---------------------------- MODULE Spec2Model ----------------------------
(***************************************************************************)
(* Model of bulletin_monitor: the SSH session (ssh_utils.py), the log      *)
(* status classifier and the run-window resolver (app.py), and the HTTP    *)
(* handlers that use them.                                                 *)
(*                                                                         *)
(* Python strings are modelled as sequences of one-character strings, so   *)
(* that upper(), substring search, splitlines(), join, startswith and the  *)
(* regular expressions are computed on characters as the code does.        *)
(***************************************************************************)
EXTENDS Integers, Sequences, FiniteSets, TLC

VARIABLES
    \* --- classifier run (parse_log_status applied to one text) ---
    input_words,     \* the words the text was built from (indexes into Words)
    log_content,     \* the text handed to parse_log_status
    classified,      \* <<>> before the call, <<[status, has_warnings]>> after
    \* --- one call of get_bulletin_details_summary, the session's answers as inputs ---
    current_date,    \* datetime.datetime.now()
    tail_lines,      \* the last lines of the remote log file (indexes into LogLines)
    exec_kind,       \* how execute_command("tail ...") ends
    rw_bulletin,     \* index of bulletin_config in BULLETINS
    rw_pc,           \* "check", "fetch", "resolve", "done"
    fetch,           \* "none", then "inactive", "failed" or "ok"
    log_content_for_check,
    record,          \* <<>>, then <<the dictionary returned>>
    \* --- the shared session (bqrm_ssh_client) and the remote host ---
    session,         \* [is_connected, conn, active]: _is_connected, the transport
                     \* of self.client (0: None) and whether it is active
    next_conn,       \* the number the next transport gets
    drops,           \* how many times the transport died so far
    last_connect,    \* what the latest call of _connect did
    \* --- the requests GET /api/bulletins, one thread each ---
    pc,              \* where each request is
    idx,             \* the index in BULLETINS of the bulletin being summarised
    results,         \* the records appended so far
    resp,            \* the response: [code, body]
    hook,            \* what the before_request hook found
    ec,              \* the current call of execute_command
    rw,              \* status, last_run, has_warnings of the bulletin being summarised
    \* --- the session on its own: configuration, connect, close ---
    credentials,     \* what config.py read from the environment
    auth_used,       \* the credentials the latest _connect handed to client.connect
    close_calls,     \* calls of close() since the latest successful connect
    \* --- one call of a handler or function on its own ---
    remote_ops,      \* the operations asked of the session during the call, in order
    template_pieces, \* the pieces the template of _resolve_dynamic_path is made of
    resolved,        \* what the calls of _resolve_dynamic_path returned, in order
    request,         \* a rerun or download_product request: [endpoint, bulletin_id, index]
    handler,         \* where its handler is, what the session answered, and the file
                     \* in temp_downloads ("none", "present", "removed")
    response         \* the status code of the answer (0: none yet)

classify_vars == <<input_words, log_content, classified>>
resolve_vars == <<current_date, tail_lines, exec_kind, rw_bulletin, rw_pc, fetch,
                  log_content_for_check, record>>
session_vars == <<session, next_conn, drops, last_connect,
                  pc, idx, results, resp, hook, ec, rw>>
config_vars == <<credentials, auth_used, close_calls>>
handler_vars == <<request, handler, response>>
call_vars == <<remote_ops, template_pieces, resolved, handler_vars>>
aux_vars == <<config_vars, call_vars>>
vars == <<classify_vars, resolve_vars, session_vars, aux_vars>>

(***************************************************************************)
(* Characters and the string operations of Python the code uses            *)
(***************************************************************************)
LowerChars == <<"a","b","c","d","e","f","g","h","i","j","k","l","m",
                "n","o","p","q","r","s","t","u","v","w","x","y","z">>
UpperChars == <<"A","B","C","D","E","F","G","H","I","J","K","L","M",
                "N","O","P","Q","R","S","T","U","V","W","X","Y","Z">>
DigitChars == <<"0","1","2","3","4","5","6","7","8","9">>
NL == "\n"

\* str.upper() on one character
UpperChar(c) ==
    IF \E i \in 1..Len(LowerChars) : LowerChars[i] = c
    THEN UpperChars[CHOOSE i \in 1..Len(LowerChars) : LowerChars[i] = c]
    ELSE c

\* str.upper()
Upper(s) == [i \in 1..Len(s) |-> UpperChar(s[i])]

\* s.startswith(p)
StartsWith(s, p) == Len(p) <= Len(s) /\ SubSeq(s, 1, Len(p)) = p

\* p in s
Contains(s, p) ==
    \E i \in 1..(Len(s) - Len(p) + 1) : SubSeq(s, i, i + Len(p) - 1) = p

(***************************************************************************)
(* config.py: the keyword lists                                            *)
(***************************************************************************)
KW_SUCCESS == <<"S","U","C","C","E","S","S">>
KW_COMPLETED == <<"C","O","M","P","L","E","T","E","D">>
KW_FINISHED == <<"F","I","N","I","S","H","E","D">>
KW_ERROR == <<"E","R","R","O","R">>
KW_FAILURE == <<"F","A","I","L","U","R","E">>
KW_FAILED == <<"F","A","I","L","E","D">>
KW_EXCEPTION == <<"E","X","C","E","P","T","I","O","N">>
KW_WARNING == <<"W","A","R","N","I","N","G">>
KW_WARN == <<"W","A","R","N">>
KW_CRITICAL == <<"C","R","I","T","I","C","A","L">>
KW_FATAL == <<"F","A","T","A","L">>
KW_SEVERE == <<"S","E","V","E","R","E">>

SUCCESS_KEYWORDS == {KW_SUCCESS, KW_COMPLETED, KW_FINISHED}
ERROR_KEYWORDS == {KW_ERROR, KW_FAILURE, KW_FAILED, KW_EXCEPTION}
WARNING_KEYWORDS == {KW_WARNING, KW_WARN}
CRITICAL_KEYWORDS == {KW_CRITICAL, KW_FATAL, KW_SEVERE}

\* the text get_log_content_for_date_range returns when the tail command failed
FetchErrorMarker == <<"E","r","r","o","r"," ","f","e","t","c","h","i","n","g"," ","l","o","g"," ","f","i","l","e">>

(***************************************************************************)
(* app.py: parse_log_status                                                *)
(***************************************************************************)
\* any(kw in log_content_upper for kw in KEYWORDS)
AnyKeyword(text_upper, KEYWORDS) == \E kw \in KEYWORDS : Contains(text_upper, kw)

\* mutant: has_warnings is set whenever a warning keyword is present
parse_log_status_warning_flag(text) ==
    IF text = <<>> \/ Contains(text, FetchErrorMarker)
    THEN [status |-> "UNKNOWN", has_warnings |-> FALSE]
    ELSE LET log_content_upper == Upper(text)
             is_critical == AnyKeyword(log_content_upper, CRITICAL_KEYWORDS)
             is_failed == AnyKeyword(log_content_upper, ERROR_KEYWORDS)
             is_success == AnyKeyword(log_content_upper, SUCCESS_KEYWORDS)
             is_warning == AnyKeyword(log_content_upper, WARNING_KEYWORDS)
         IN  IF is_critical THEN [status |-> "CRITICAL", has_warnings |-> is_warning]
             ELSE IF is_failed THEN [status |-> "FAILED", has_warnings |-> is_warning]
             ELSE IF is_success THEN [status |-> "SUCCESS", has_warnings |-> is_warning]
             ELSE IF is_warning THEN [status |-> "WARNING", has_warnings |-> TRUE]
             ELSE [status |-> "UNKNOWN", has_warnings |-> FALSE]

\* mutant: the classifier answers with the sentinel values of the run window
parse_log_status_sentinel(text) ==
    IF text = <<>> THEN [status |-> "NO_RECENT_RUN", has_warnings |-> FALSE]
    ELSE IF Contains(text, FetchErrorMarker)
    THEN [status |-> "SSH_ERROR", has_warnings |-> FALSE]
    ELSE [status |-> "UNKNOWN", has_warnings |-> FALSE]

\* mutant: the keyword search on the text as written, without upper()
parse_log_status_no_upper(text) ==
    IF text = <<>> \/ Contains(text, FetchErrorMarker)
    THEN [status |-> "UNKNOWN", has_warnings |-> FALSE]
    ELSE LET is_critical == AnyKeyword(text, CRITICAL_KEYWORDS)
             is_failed == AnyKeyword(text, ERROR_KEYWORDS)
             is_success == AnyKeyword(text, SUCCESS_KEYWORDS)
             is_warning == AnyKeyword(text, WARNING_KEYWORDS)
         IN  IF is_critical THEN [status |-> "CRITICAL", has_warnings |-> FALSE]
             ELSE IF is_failed THEN [status |-> "FAILED", has_warnings |-> FALSE]
             ELSE IF is_success THEN [status |-> "SUCCESS", has_warnings |-> is_warning]
             ELSE IF is_warning THEN [status |-> "WARNING", has_warnings |-> FALSE]
             ELSE [status |-> "UNKNOWN", has_warnings |-> FALSE]

\* mutant: a warning keyword downgrades SUCCESS to WARNING
parse_log_status_warning_first(text) ==
    IF text = <<>> \/ Contains(text, FetchErrorMarker)
    THEN [status |-> "UNKNOWN", has_warnings |-> FALSE]
    ELSE LET log_content_upper == Upper(text)
             is_critical == AnyKeyword(log_content_upper, CRITICAL_KEYWORDS)
             is_failed == AnyKeyword(log_content_upper, ERROR_KEYWORDS)
             is_success == AnyKeyword(log_content_upper, SUCCESS_KEYWORDS)
             is_warning == AnyKeyword(log_content_upper, WARNING_KEYWORDS)
         IN  IF is_critical THEN [status |-> "CRITICAL", has_warnings |-> FALSE]
             ELSE IF is_failed THEN [status |-> "FAILED", has_warnings |-> FALSE]
             ELSE IF is_warning THEN [status |-> "WARNING", has_warnings |-> FALSE]
             ELSE IF is_success THEN [status |-> "SUCCESS", has_warnings |-> FALSE]
             ELSE [status |-> "UNKNOWN", has_warnings |-> FALSE]

\* mutant: the fetch-error marker is not looked for
parse_log_status_no_marker(text) ==
    IF text = <<>>
    THEN [status |-> "UNKNOWN", has_warnings |-> FALSE]
    ELSE LET log_content_upper == Upper(text)
             is_critical == AnyKeyword(log_content_upper, CRITICAL_KEYWORDS)
             is_failed == AnyKeyword(log_content_upper, ERROR_KEYWORDS)
             is_success == AnyKeyword(log_content_upper, SUCCESS_KEYWORDS)
             is_warning == AnyKeyword(log_content_upper, WARNING_KEYWORDS)
         IN  IF is_critical THEN [status |-> "CRITICAL", has_warnings |-> FALSE]
             ELSE IF is_failed THEN [status |-> "FAILED", has_warnings |-> FALSE]
             ELSE IF is_success THEN [status |-> "SUCCESS", has_warnings |-> is_warning]
             ELSE IF is_warning THEN [status |-> "WARNING", has_warnings |-> FALSE]
             ELSE [status |-> "UNKNOWN", has_warnings |-> FALSE]

parse_log_status(text) ==
    IF text = <<>> \/ Contains(text, FetchErrorMarker)
    THEN [status |-> "UNKNOWN", has_warnings |-> FALSE]
    ELSE LET log_content_upper == Upper(text)
             is_critical == AnyKeyword(log_content_upper, CRITICAL_KEYWORDS)
             is_failed == AnyKeyword(log_content_upper, ERROR_KEYWORDS)
             is_success == AnyKeyword(log_content_upper, SUCCESS_KEYWORDS)
             is_warning == AnyKeyword(log_content_upper, WARNING_KEYWORDS)
         IN  IF is_critical THEN [status |-> "CRITICAL", has_warnings |-> FALSE]
             ELSE IF is_failed THEN [status |-> "FAILED", has_warnings |-> FALSE]
             ELSE IF is_success THEN [status |-> "SUCCESS", has_warnings |-> is_warning]
             ELSE IF is_warning THEN [status |-> "WARNING", has_warnings |-> FALSE]
             ELSE [status |-> "UNKNOWN", has_warnings |-> FALSE]

(***************************************************************************)
(* More of Python's string operations                                      *)
(***************************************************************************)
IsDigit(c) == \E i \in 1..Len(DigitChars) : DigitChars[i] = c
DigitVal(c) == (CHOOSE i \in 1..Len(DigitChars) : DigitChars[i] = c) - 1
DigitChar(n) == DigitChars[n + 1]

\* int() of a run of digits
RECURSIVE NumVal(_)
NumVal(s) == IF s = <<>> THEN 0 ELSE NumVal(SubSeq(s, 1, Len(s) - 1)) * 10 + DigitVal(s[Len(s)])

\* "%02d" and "%04d"
Pad2(n) == <<DigitChar((n \div 10) % 10), DigitChar(n % 10)>>
Pad4(n) == <<DigitChar((n \div 1000) % 10), DigitChar((n \div 100) % 10)>> \o Pad2(n % 100)

IsSpace(c) == c \in {" ", NL}

\* str.strip()
RECURSIVE LStrip(_)
LStrip(s) == IF s # <<>> /\ IsSpace(s[1]) THEN LStrip(Tail(s)) ELSE s
RECURSIVE RStrip(_)
RStrip(s) == IF s # <<>> /\ IsSpace(s[Len(s)]) THEN RStrip(SubSeq(s, 1, Len(s) - 1)) ELSE s
Strip(s) == RStrip(LStrip(s))

\* str.splitlines(): the pieces between line breaks, no empty piece after a final break
RECURSIVE SplitLines(_)
SplitLines(s) ==
    IF s = <<>> THEN <<>>
    ELSE LET brk == {i \in 1..Len(s) : s[i] = NL}
             k == IF brk = {} THEN Len(s) + 1
                  ELSE CHOOSE i \in brk : \A j \in brk : i <= j
         IN  <<SubSeq(s, 1, k - 1)>> \o SplitLines(SubSeq(s, k + 1, Len(s)))

\* "\n".join(lines)
RECURSIVE JoinLines(_)
JoinLines(lines) ==
    IF lines = <<>> THEN <<>>
    ELSE IF Len(lines) = 1 THEN lines[1]
    ELSE lines[1] \o <<NL>> \o JoinLines(Tail(lines))

(***************************************************************************)
(* Dates: datetime.strftime, datetime.strptime, timedelta(days=1) and the  *)
(* two regular expressions of app.py                                       *)
(***************************************************************************)
IsLeap(y) == (y % 4 = 0 /\ y % 100 # 0) \/ y % 400 = 0

DaysInMonth(y, m) ==
    IF m = 2 THEN (IF IsLeap(y) THEN 29 ELSE 28)
    ELSE IF m \in {4, 6, 9, 11} THEN 30 ELSE 31

\* date - datetime.timedelta(days=1)
PrevDay(d) ==
    IF d.day > 1 THEN [d EXCEPT !.day = d.day - 1]
    ELSE IF d.month > 1
         THEN [year |-> d.year, month |-> d.month - 1, day |-> DaysInMonth(d.year, d.month - 1)]
         ELSE [year |-> d.year - 1, month |-> 12, day |-> 31]

\* date.strftime('%Y-%m-%d')
FormatDate(d) == Pad4(d.year) \o <<"-">> \o Pad2(d.month) \o <<"-">> \o Pad2(d.day)

AllDigits(s) == \A i \in 1..Len(s) : IsDigit(s[i])

\* re.match(r'^(\d{4}-\d{2}-\d{2})', line)
MatchesDatePattern(line) ==
    /\ Len(line) >= 10
    /\ AllDigits(SubSeq(line, 1, 4)) /\ line[5] = "-"
    /\ AllDigits(SubSeq(line, 6, 7)) /\ line[8] = "-"
    /\ AllDigits(SubSeq(line, 9, 10))

\* re.match(r'^\d{4}-\d{2}-\d{2} \d{2}:\d{2}:\d{2}', line)
MatchesTimestampPattern(line) ==
    /\ Len(line) >= 19
    /\ MatchesDatePattern(line)
    /\ line[11] = " "
    /\ AllDigits(SubSeq(line, 12, 13)) /\ line[14] = ":"
    /\ AllDigits(SubSeq(line, 15, 16)) /\ line[17] = ":"
    /\ AllDigits(SubSeq(line, 18, 19))

\* the fields of a text that matches the date pattern
DateFields(s) ==
    [year |-> NumVal(SubSeq(s, 1, 4)), month |-> NumVal(SubSeq(s, 6, 7)),
     day |-> NumVal(SubSeq(s, 9, 10))]

\* datetime.strptime(s, '%Y-%m-%d') does not raise ValueError
ValidDate(s) ==
    LET d == DateFields(s)
    IN  /\ d.year >= 1
        /\ d.month \in 1..12
        /\ d.day >= 1 /\ d.day <= DaysInMonth(d.year, d.month)

\* datetime.strptime(s, '%Y-%m-%d %H:%M:%S') does not raise ValueError
ValidDateTime(s) ==
    /\ ValidDate(s)
    /\ NumVal(SubSeq(s, 12, 13)) <= 23
    /\ NumVal(SubSeq(s, 15, 16)) <= 59
    /\ NumVal(SubSeq(s, 18, 19)) <= 59

\* the order of dates as one number, and the seconds of a time of day
DateKey(d) == (d.year * 13 + d.month) * 32 + d.day
TimeKey(s) ==
    (NumVal(SubSeq(s, 12, 13)) * 60 + NumVal(SubSeq(s, 15, 16))) * 60
        + NumVal(SubSeq(s, 18, 19))

\* datetime a > datetime b, for two texts that parsed
DateTimeAfter(a, b) ==
    \/ DateKey(DateFields(a)) > DateKey(DateFields(b))
    \/ (DateKey(DateFields(a)) = DateKey(DateFields(b)) /\ TimeKey(a) > TimeKey(b))

(***************************************************************************)
(* ssh_utils.py: what execute_command returns                              *)
(***************************************************************************)
ReconnectFailedPrefix == <<"S","S","H"," ","c","o","n","n","e","c","t","i","o","n"," ","i","n","a","c","t","i","v","e"," ","a","n","d"," ","f","a","i","l","e","d"," ","t","o"," ","r","e","-","c","o","n","n","e","c","t",":"," ">>

\* return False, "", f"SSH connection inactive and failed to re-connect: {e}"
ExecReconnectFailed(e) ==
    [success |-> FALSE, output |-> <<>>, error |-> ReconnectFailedPrefix \o e]

\* the command ran: exit status, stdout and stderr read, decoded and stripped
ExecCompleted(exit_status, stdout, stderr) ==
    [success |-> exit_status = 0, output |-> Strip(stdout), error |-> Strip(stderr)]

\* except paramiko.SSHException / Exception: return False, "", str(e)
ExecRaised(e) == [success |-> FALSE, output |-> <<>>, error |-> e]

(***************************************************************************)
(* app.py: get_log_content_for_date_range                                  *)
(***************************************************************************)
SSH_ERROR_TEXT == <<"S","S","H","_","E","R","R","O","R">>
InactiveContent == <<"S","S","H","_","E","R","R","O","R",":"," ","B","a","c","k","e","n","d"," ","S","S","H"," ","c","l","i","e","n","t"," ","i","n","a","c","t","i","v","e",".">>
FetchErrorPrefix == <<"E","r","r","o","r"," ","f","e","t","c","h","i","n","g"," ","l","o","g"," ","f","i","l","e"," ","'">>
FetchErrorInfix == <<"'",":"," ">>

\* the loop of lines 161-174: the lines kept so far, then line i and the rest
RECURSIVE FilterDateRange(_, _, _, _, _)
FilterDateRange(lines, i, start_date, end_date, filtered_lines) ==
    IF i > Len(lines) THEN filtered_lines
    ELSE LET line == lines[i]
             keep ==
                IF MatchesDatePattern(line)
                THEN /\ ValidDate(line)
                     /\ DateKey(start_date) <= DateKey(DateFields(line))
                     /\ DateKey(DateFields(line)) <= DateKey(end_date)
                ELSE filtered_lines # <<>>
         IN  FilterDateRange(lines, i + 1, start_date, end_date,
                             IF keep THEN Append(filtered_lines, line) ELSE filtered_lines)

\* what the function returns when the session answered is_active() = FALSE
LogContentInactive == InactiveContent

\* what the function returns from the result of execute_command("tail -n 1000 <log_path>")
LogContentFetched(log_path, start_date, end_date, result) ==
    IF ~result.success
    THEN FetchErrorPrefix \o log_path \o FetchErrorInfix \o result.error
    ELSE JoinLines(FilterDateRange(SplitLines(result.output), 1, start_date, end_date, <<>>))

(***************************************************************************)
(* app.py: __get_latest_timestamp_from_log_content                          *)
(***************************************************************************)
\* mutant: the scan from the end keeps the first valid timestamp it meets
RECURSIVE LatestScan_first_found(_, _, _, _)
LatestScan_first_found(lines, i, date_filter, latest) ==
    IF i = 0 THEN latest
    ELSE LET line == lines[i]
             ts == SubSeq(line, 1, 19)
             take ==
                /\ MatchesTimestampPattern(line)
                /\ ValidDateTime(ts)
                /\ DateFields(ts) = date_filter
                /\ latest = <<>>
         IN  LatestScan_first_found(lines, i - 1, date_filter,
                                    IF take THEN <<ts>> ELSE latest)

\* the loop over reversed(lines): line i and the ones before it; latest is <<>>
\* (None) or <<timestamp>>
RECURSIVE LatestScan(_, _, _, _)
LatestScan(lines, i, date_filter, latest) ==
    IF i = 0 THEN latest
    ELSE LET line == lines[i]
             ts == SubSeq(line, 1, 19)
             take ==
                /\ MatchesTimestampPattern(line)
                /\ ValidDateTime(ts)
                /\ DateFields(ts) = date_filter
                /\ (latest = <<>> \/ DateTimeAfter(ts, latest[1]))
         IN  LatestScan(lines, i - 1, date_filter, IF take THEN <<ts>> ELSE latest)

_get_latest_timestamp_from_log_content(content, date_filter) ==
    LatestScan(SplitLines(content), Len(SplitLines(content)), date_filter, <<>>)

(***************************************************************************)
(* app.py: get_bulletin_details_summary, the resolution of the run window  *)
(***************************************************************************)
NA == <<"N","/","A">>
NA_LogFetchError == <<"N","/","A"," ","(","L","o","g"," ","f","e","t","c","h"," ","e","r","r","o","r",")">>
NA_LastRunPrefix == <<"N","/","A"," ","(","L","a","s","t"," ","r","u","n",":"," ">>
NA_LastRunSuffix == <<" ","-"," ","Y","e","s","t","e","r","d","a","y",")">>
NA_NoRecentRuns == <<"N","/","A"," ","(","N","o"," ","r","e","c","e","n","t"," ","r","u","n","s"," ","t","o","d","a","y"," ","o","r"," ","y","e","s","t","e","r","d","a","y",")">>

\* the loops of lines 252-258 and 275-279: the lines of one day
RECURSIVE DayLines(_, _, _, _)
DayLines(lines, i, date_str, day_lines) ==
    IF i > Len(lines) THEN day_lines
    ELSE LET line == lines[i]
             keep == \/ StartsWith(line, date_str)
                     \/ (day_lines # <<>> /\ ~MatchesDatePattern(line))
         IN  DayLines(lines, i + 1, date_str,
                      IF keep THEN Append(day_lines, line) ELSE day_lines)

\* today_log_content / yesterday_log_content
DayLogContent(content, date) ==
    JoinLines(DayLines(SplitLines(content), 1, FormatDate(date), <<>>))

\* lines 244-295: status, last_run and has_warnings from log_content_for_check
ResolveRunWindow(content, today_date) ==
    LET yesterday_date == PrevDay(today_date)
        today_log_content == DayLogContent(content, today_date)
        latest_run_today ==
            _get_latest_timestamp_from_log_content(today_log_content, today_date)
        yesterday_log_content == DayLogContent(content, yesterday_date)
        latest_run_yesterday ==
            _get_latest_timestamp_from_log_content(yesterday_log_content, yesterday_date)
    IN  IF Contains(content, SSH_ERROR_TEXT)
        THEN [status |-> "SSH_ERROR", last_run |-> NA_LogFetchError, has_warnings |-> FALSE]
        ELSE IF latest_run_today # <<>>
        THEN [status |-> parse_log_status(today_log_content).status,
              last_run |-> latest_run_today[1],
              has_warnings |-> parse_log_status(today_log_content).has_warnings]
        ELSE IF latest_run_yesterday # <<>>
        THEN [status |-> "PENDING",
              last_run |-> NA_LastRunPrefix \o latest_run_yesterday[1] \o NA_LastRunSuffix,
              has_warnings |-> FALSE]
        ELSE [status |-> "NO_RECENT_RUN", last_run |-> NA_NoRecentRuns, has_warnings |-> FALSE]

(***************************************************************************)
(* app.py: _resolve_dynamic_path                                           *)
(***************************************************************************)
DateOf(dt) == [year |-> dt.year, month |-> dt.month, day |-> dt.day]

\* date_vars: the placeholder names and their values for a datetime
date_vars(date) == <<
    << <<"y","e","a","r">>, Pad4(date.year) >>,
    << <<"y","e","a","r","_","s","h","o","r","t">>, Pad2(date.year % 100) >>,
    << <<"m","o","n","t","h">>, Pad2(date.month) >>,
    << <<"d","a","y">>, Pad2(date.day) >>,
    << <<"H","o","u","r">>, Pad2(date.hour) >>,
    << <<"h","o","u","r">>, Pad2(date.hour) >>,
    << <<"M","i","n","u","t","e">>, Pad2(date.minute) >>,
    << <<"m","i","n","u","t","e">>, Pad2(date.minute) >>,
    << <<"S","e","c","o","n","d">>, Pad2(date.second) >>,
    << <<"s","e","c","o","n","d">>, Pad2(date.second) >>,
    << <<"D","D">>, Pad2(date.day) >>,
    << <<"M","M">>, Pad2(date.month) >>,
    << <<"Y","Y","Y","Y">>, Pad4(date.year) >>,
    << <<"D","a","y">>, Pad2(date.day) >>,
    << <<"M","o","n","t","h">>, Pad2(date.month) >>,
    << <<"Y","e","a","r">>, Pad4(date.year) >> >>

\* template_string.format(**date_vars) from character i on: <<>> when format
\* raises (KeyError for an unknown name, ValueError for a lone brace), else
\* <<the text>>.  The rest of the template is formatted once and bound to rest.
RECURSIVE FormatFrom(_, _, _)
FormatFrom(t, i, dv) ==
    IF i > Len(t) THEN << <<>> >>
    ELSE IF t[i] = "{" /\ i < Len(t) /\ t[i + 1] = "{"
    THEN CHOOSE r \in {IF rest = <<>> THEN <<>> ELSE << <<"{">> \o rest[1] >> :
                          rest \in {FormatFrom(t, i + 2, dv)}} : TRUE
    ELSE IF t[i] = "}" /\ i < Len(t) /\ t[i + 1] = "}"
    THEN CHOOSE r \in {IF rest = <<>> THEN <<>> ELSE << <<"}">> \o rest[1] >> :
                          rest \in {FormatFrom(t, i + 2, dv)}} : TRUE
    ELSE IF t[i] = "}" THEN <<>>
    ELSE IF t[i] = "{"
    THEN LET closes == {j \in (i + 1)..Len(t) : t[j] = "}"}
         IN  IF closes = {} THEN <<>>
             ELSE LET j == CHOOSE c \in closes : \A d \in closes : c <= d
                      name == SubSeq(t, i + 1, j - 1)
                      known == {k \in 1..Len(dv) : dv[k][1] = name}
                  IN  IF known = {} THEN <<>>
                      ELSE CHOOSE r \in {IF rest = <<>> THEN <<>>
                                          ELSE << dv[CHOOSE k \in known : TRUE][2] \o rest[1] >> :
                                            rest \in {FormatFrom(t, j + 1, dv)}} : TRUE
    ELSE CHOOSE r \in {IF rest = <<>> THEN <<>> ELSE << <<t[i]>> \o rest[1] >> :
                          rest \in {FormatFrom(t, i + 1, dv)}} : TRUE

\* mutant: a placeholder date_vars does not know is left as it is
_resolve_dynamic_path_partial(template_string, date) ==
    FormatFrom(template_string, 1,
               date_vars(date) \o << << <<"b","o","g","u","s">>,
                                        <<"{","b","o","g","u","s","}">> >> >>)

\* <<>> is None, <<path>> the resolved path; the template and date_vars are
\* evaluated once and bound to t and dv
_resolve_dynamic_path(template_string, date) ==
    CHOOSE resolved_path \in {FormatFrom(t, 1, dv) : t \in {template_string},
                                                     dv \in {date_vars(date)}} : TRUE

(***************************************************************************)
(* config.py: BULLETINS.  The first two bulletins of config.py; app.py     *)
(* reads bulletin_config.get("product_paths", []), which config.py gives   *)
(* no bulletin: the second bulletin here carries two product descriptors,  *)
(* one of them with a placeholder date_vars does not know.                 *)
(***************************************************************************)
BULLETINS == <<
    [id |-> "sonelgaz",
     log_path |-> <<"/","h","o","m","e","/","b","q","r","m","/","B","Q","R","M","_","V","0","1","/","s","o","n","e","l","g","a","z","/","s","c","r","/","l","o","g","s","/","s","o","n","e","l","g","a","z",".","l","o","g">>,
     rerun_command |-> <<"/","b","i","n","/","b","a","s","h"," ","/","h","o","m","e","/","b","q","r","m","/","B","Q","R","M","_","V","0","1","/","s","o","n","e","l","g","a","z","/","s","c","r","/","r","u","n",".","s","h">>,
     product_paths |-> << >>],
    [id |-> "BMSLA",
     log_path |-> <<"/","h","o","m","e","/","b","q","r","m","/","B","Q","R","M","_","V","0","1","/","B","M","S","L","A","/","s","c","r","/","l","o","g","s","/","B","M","S","L","A",".","l","o","g">>,
     rerun_command |-> <<"/","b","i","n","/","b","a","s","h"," ","/","h","o","m","e","/","b","q","r","m","/","B","Q","R","M","_","V","0","1","/","B","M","S","L","A","/","s","c","r","/","r","u","n",".","s","h">>,
     product_paths |-> <<
        [name |-> "pdf",
         template |-> <<"/","o","u","t","/","B","M","S","L","A","_","{","Y","Y","Y","Y","}","{","M","M","}","{","D","D","}",".","p","d","f">>],
        [name |-> "csv",
         template |-> <<"/","o","u","t","/","B","M","S","L","A","_","{","y","y","y","y","}",".","c","s","v">>] >>] >>

(***************************************************************************)
(* app.py: get_bulletin_details_summary, the records it returns            *)
(***************************************************************************)
\* lines 221-239: the record returned when the session is not active
SummaryInactive(bulletin_config, date) ==
    [id |-> bulletin_config.id,
     status |-> "SSH_ERROR",
     last_run |-> NA,
     has_warnings |-> FALSE,
     product_info |->
        [p \in 1..Len(bulletin_config.product_paths) |->
            [name |-> bulletin_config.product_paths[p].name,
             available |-> FALSE,
             remote_path |-> _resolve_dynamic_path(bulletin_config.product_paths[p].template, date)]]]

\* lines 297-313: exists[p] is the answer of file_exists for product p, which
\* is asked only for a path that resolved
ProductInfo(bulletin_config, date, exists) ==
    [p \in 1..Len(bulletin_config.product_paths) |->
        LET remote_product_path ==
                _resolve_dynamic_path(bulletin_config.product_paths[p].template, date)
        IN  [name |-> bulletin_config.product_paths[p].name,
             available |-> IF remote_product_path # <<>> THEN exists[p] ELSE FALSE,
             remote_path |-> remote_product_path]]

\* lines 315-322: the record returned from the resolved run window and the products
SummaryRecord(bulletin_config, date, run, exists) ==
    [id |-> bulletin_config.id,
     status |-> run.status,
     last_run |-> run.last_run,
     has_warnings |-> run.has_warnings,
     product_info |-> ProductInfo(bulletin_config, date, exists)]

\* lines 244-322: the record returned once the log content has been fetched
SummaryFetched(bulletin_config, date, content, exists) ==
    SummaryRecord(bulletin_config, date, ResolveRunWindow(content, DateOf(date)), exists)

\* mutant: file_exists is called for every product descriptor
ExistenceChecks_every_product(bulletin_config, date) ==
    [p \in 1..Len(bulletin_config.product_paths) |->
        [op |-> "file_exists", product |-> p,
         path |-> _resolve_dynamic_path(bulletin_config.product_paths[p].template, date)]]

\* lines 298-302: the calls of file_exists made while the products are gone
\* through, in order: one for each product whose path resolved
ExistenceChecks(bulletin_config, date) ==
    SelectSeq([p \in 1..Len(bulletin_config.product_paths) |->
                  [op |-> "file_exists", product |-> p,
                   path |-> _resolve_dynamic_path(bulletin_config.product_paths[p].template, date)]],
              LAMBDA c : c.path # <<>>)

\* RemoteSession.fileExists: the answers it can give; false when the query
\* fails, as it does on a session that is not active
file_exists_answers(active) == IF active THEN BOOLEAN ELSE {FALSE}

(***************************************************************************)
(* ssh_utils.py: the session.  A transport is a number (0: the client has  *)
(* none); a connect that succeeds gives the client a new one.              *)
(***************************************************************************)
NumRequests == 2
MaxDrops == 1

Reqs == 1..NumRequests

\* the client before the first connect: paramiko.SSHClient(), _is_connected = False
NewSession == [is_connected |-> FALSE, conn |-> 0, active |-> FALSE]

\* self.client.get_transport() and self.client.get_transport().is_active()
transport_active(sess) == sess.conn # 0 /\ sess.active

\* BQRMSshClient.is_active
is_active(sess) == sess.is_connected /\ transport_active(sess)

\* mutant: _connect returns at once on a session that is connected and live
_connect_idempotent(sess, up, new_id) ==
    IF is_active(sess)
    THEN [sess |-> sess, closed_old |-> FALSE, ok |-> TRUE]
    ELSE IF up
    THEN [sess |-> [is_connected |-> TRUE, conn |-> new_id, active |-> TRUE],
          closed_old |-> transport_active(sess), ok |-> TRUE]
    ELSE [sess |-> [is_connected |-> FALSE,
                    conn |-> IF transport_active(sess) THEN 0 ELSE sess.conn,
                    active |-> FALSE],
          closed_old |-> transport_active(sess), ok |-> FALSE]

\* BQRMSshClient._connect: an active transport is closed first (SSHClient.close
\* leaves the client without transport); then the connect succeeds (up) and
\* the client gets transport new_id, or raises (ok = FALSE)
_connect(sess, up, new_id) ==
    IF up
    THEN [sess |-> [is_connected |-> TRUE, conn |-> new_id, active |-> TRUE],
          closed_old |-> transport_active(sess), ok |-> TRUE]
    ELSE [sess |-> [is_connected |-> FALSE,
                    conn |-> IF transport_active(sess) THEN 0 ELSE sess.conn,
                    active |-> FALSE],
          closed_old |-> transport_active(sess), ok |-> FALSE]

\* the credentials client.connect can be given
Credentials == {"key", "password"}

\* mutant: the password is handed to client.connect when it is set
connect_credential_password_first(cfg) ==
    IF cfg.password THEN <<"password">>
    ELSE IF cfg.key_path /\ cfg.key_file THEN <<"key">>
    ELSE <<>>

\* ssh_utils.py lines 48-67: the credential handed to client.connect, from
\* BQRM_PRIVATE_KEY_PATH (key_path), os.path.exists of it (key_file) and
\* BQRM_PASSWORD; <<>> when the ValueError of line 67 is raised instead
connect_credential(cfg) ==
    IF cfg.key_path /\ cfg.key_file THEN <<"key">>
    ELSE IF cfg.password THEN <<"password">>
    ELSE <<>>

\* BQRMSshClient._connect under the configuration cfg, the remote host
\* accepting the credentials in accepts.  Lines 38-39 raise before anything
\* is touched when the host or the user is not set.
_connect_configured(sess, cfg, accepts, new_id) ==
    IF ~cfg.host_user
    THEN [sess |-> sess, closed_old |-> FALSE, ok |-> FALSE, tried |-> <<>>]
    ELSE LET tried == connect_credential(cfg)
             c == _connect(sess, \E i \in 1..Len(tried) : tried[i] \in accepts, new_id)
         IN  [sess |-> c.sess, closed_old |-> c.closed_old, ok |-> c.ok, tried |-> tried]

\* mutant: close() leaves the client as it is
close_noop(sess) == sess

\* BQRMSshClient.close: an active transport is closed and _is_connected set to
\* False; nothing is done otherwise
close(sess) ==
    IF transport_active(sess)
    THEN [is_connected |-> FALSE, conn |-> 0, active |-> FALSE]
    ELSE sess

\* mutant: a failed reconnect in execute_command is tried a second time
execute_command_reconnect_retry(sess, up, new_id) ==
    LET first == _connect(sess, up, new_id)
    IN  IF first.ok
        THEN [sess |-> first.sess, closed_old |-> first.closed_old, ok |-> TRUE,
              attempts |-> 1]
        ELSE [sess |-> _connect(first.sess, up, new_id).sess,
              closed_old |-> first.closed_old,
              ok |-> _connect(first.sess, up, new_id).ok, attempts |-> 2]

\* lines 99-103 of execute_command: try: self._connect() except: return
execute_command_reconnect(sess, up, new_id) ==
    [sess |-> _connect(sess, up, new_id).sess,
     closed_old |-> _connect(sess, up, new_id).closed_old,
     ok |-> _connect(sess, up, new_id).ok,
     attempts |-> 1]

\* str(e) of the exceptions met
ConnectErrorText == <<"t","i","m","e","d"," ","o","u","t">>
SessionNotActiveText == <<"S","S","H"," ","s","e","s","s","i","o","n"," ","n","o","t"," ","a","c","t","i","v","e">>

\* what is known of one call of execute_command: how is_active() answered on
\* entry, the calls of _connect made and the outcome, the transport made, the
\* transport the command was issued on (0: exec_command raised), whether the
\* session was left alone between the connect and the issue (no transport
\* died, no other _connect), and the triple returned; event is what happened
\* inside the call, raised that an exception left it
NoCall == [entry |-> "none", connects |-> 0, connect_ok |-> FALSE, conn_made |-> 0,
           drops_made |-> 0, attempted |-> FALSE, issued_on |-> 0, undisturbed |-> FALSE,
           ret |-> <<>>,
           event |-> [kind |-> "none", exit_status |-> 0, stdout |-> <<>>, text |-> <<>>],
           raised |-> FALSE]

\* what is known of the latest call of _connect: the request that made it, the
\* session was connected and live, its transport was closed, the connect
\* succeeded, the session's transport after the call is the one before it, and
\* the number of transports that had died when it was made
NoConnect == [called |-> FALSE, by |-> 0, was_live |-> FALSE, closed_old |-> FALSE,
              ok |-> FALSE, same_transport |-> FALSE, drops |-> 0]

NoRun == [status |-> "", last_run |-> <<>>, has_warnings |-> FALSE]

NoResponse == [code |-> 0, body |-> <<>>]

NoAuth == [tried |-> <<>>, accepts |-> {}, ok |-> FALSE]

ConfigIdle ==
    /\ credentials = [host_user |-> TRUE, key_path |-> TRUE, key_file |-> TRUE,
                      password |-> FALSE]
    /\ auth_used = NoAuth
    /\ close_calls = 0

NoHandler == [pc |-> "done", active |-> "unknown", event |-> <<>>, temp_file |-> "none"]

CallIdle ==
    /\ remote_ops = <<>>
    /\ template_pieces = <<>>
    /\ resolved = <<>>
    /\ request = [endpoint |-> "none", bulletin_id |-> "", index |-> 0]
    /\ handler = NoHandler
    /\ response = 0

AuxIdle == ConfigIdle /\ CallIdle

SessionIdle ==
    /\ session = NewSession
    /\ next_conn = 1
    /\ drops = 0
    /\ last_connect = NoConnect
    /\ pc = [r \in Reqs |-> "done"]
    /\ idx = [r \in Reqs |-> 1]
    /\ results = [r \in Reqs |-> <<>>]
    /\ resp = [r \in Reqs |-> NoResponse]
    /\ hook = [r \in Reqs |-> "none"]
    /\ ec = [r \in Reqs |-> NoCall]
    /\ rw = [r \in Reqs |-> NoRun]

(***************************************************************************)
(* One call of get_bulletin_details_summary.  The answers of the session   *)
(* (is_active, execute_command, file_exists) are inputs; the remote log    *)
(* file is drawn from the lines of LogLines.                               *)
(***************************************************************************)
MaxLines == 3

CurrentDates == {
    [year |-> 2024, month |-> 3, day |-> 5, hour |-> 9, minute |-> 45, second |-> 7],
    [year |-> 2024, month |-> 3, day |-> 1, hour |-> 0, minute |-> 5, second |-> 0] }

OlderDay(date) == PrevDay(PrevDay(PrevDay(date)))

\* The lines a remote log is made of, for a current date.  day: the day the
\* line is dated ("none": no date marker, "invalid": a marker that is no
\* calendar date); ts: the line starts with a valid full timestamp; time:
\* that time of day; tkey: its order within the day.
LogLines(date) ==
    LET today == FormatDate(DateOf(date))
        yesterday == FormatDate(PrevDay(DateOf(date)))
        older == FormatDate(OlderDay(DateOf(date)))
    IN  <<
    [day |-> "today", ts |-> TRUE, tkey |-> 800, time |-> <<"0","8",":","0","0",":","0","0">>,
     chars |-> today \o <<" ","0","8",":","0","0",":","0","0">> \o <<" ","S","U","C","C","E","S","S"," ","r","u","n"," ","c","o","m","p","l","e","t","e">>],
    [day |-> "today", ts |-> TRUE, tkey |-> 930, time |-> <<"0","9",":","3","0",":","0","0">>,
     chars |-> today \o <<" ","0","9",":","3","0",":","0","0">> \o <<" ","E","R","R","O","R"," ","s","t","e","p"," ","f","a","i","l","e","d">>],
    [day |-> "today", ts |-> FALSE, tkey |-> 0, time |-> <<>>,
     chars |-> today \o <<" ","2","5",":","6","1",":","0","0">> \o <<" ","W","A","R","N","I","N","G"," ","c","l","o","c","k">>],
    [day |-> "today", ts |-> FALSE, tkey |-> 0, time |-> <<>>,
     chars |-> today \o <<" ","s","t","a","r","t","i","n","g">>],
    [day |-> "yesterday", ts |-> TRUE, tkey |-> 2310, time |-> <<"2","3",":","1","0",":","0","0">>,
     chars |-> yesterday \o <<" ","2","3",":","1","0",":","0","0">> \o <<" ","C","R","I","T","I","C","A","L"," ","d","i","s","k">>],
    [day |-> "yesterday", ts |-> TRUE, tkey |-> 700, time |-> <<"0","7",":","0","0",":","0","0">>,
     chars |-> yesterday \o <<" ","0","7",":","0","0",":","0","0">> \o <<" ","f","i","n","i","s","h","e","d">>],
    [day |-> "older", ts |-> TRUE, tkey |-> 1000, time |-> <<"1","0",":","0","0",":","0","0">>,
     chars |-> older \o <<" ","1","0",":","0","0",":","0","0">> \o <<" ","F","A","I","L","E","D">>],
    [day |-> "invalid", ts |-> FALSE, tkey |-> 0, time |-> <<>>,
     chars |-> <<"2","0","2","4","-","1","3","-","4","5"," ","1","0",":","0","0",":","0","0"," ","E","R","R","O","R">>],
    [day |-> "none", ts |-> FALSE, tkey |-> 0, time |-> <<>>,
     chars |-> <<"r","e","t","r","y"," ","w","a","r","n">>],
    [day |-> "none", ts |-> FALSE, tkey |-> 0, time |-> <<>>,
     chars |-> <<"S","S","H","_","E","R","R","O","R",":"," ","h","o","s","t"," ","u","n","r","e","a","c","h","a","b","l","e">>] >>

NumLogLines == Len(LogLines(CHOOSE d \in CurrentDates : TRUE))

TailSeqs(n) == UNION {[1..k -> 1..NumLogLines] : k \in 0..n}

\* the output of "tail -n 1000 <log_path>": every line ends with a line break
RECURSIVE TailOutput(_, _)
TailOutput(date, ls) ==
    IF ls = <<>> THEN <<>>
    ELSE LogLines(date)[ls[1]].chars \o <<NL>> \o TailOutput(date, Tail(ls))

\* how a call of execute_command can end
ExecKinds == {"ok", "exit_nonzero", "raised", "reconnect_failed"}

NoSuchFile == <<"N","o"," ","s","u","c","h"," ","f","i","l","e"," ","o","r"," ","d","i","r","e","c","t","o","r","y">>
TimeoutText == <<"T","i","m","e","o","u","t"," ","o","p","e","n","i","n","g"," ","c","h","a","n","n","e","l",".">>
AuthFailedText == <<"A","u","t","h","e","n","t","i","c","a","t","i","o","n"," ","f","a","i","l","e","d",".">>

\* the triple execute_command returns for each way of ending
ExecResult(kind, stdout) ==
    IF kind = "ok" THEN ExecCompleted(0, stdout, <<>>)
    ELSE IF kind = "exit_nonzero" THEN ExecCompleted(1, stdout, NoSuchFile \o <<NL>>)
    ELSE IF kind = "raised" THEN ExecRaised(TimeoutText)
    ELSE ExecReconnectFailed(AuthFailedText)

\* What happens inside one call of execute_command: the reconnect raised
\* ("reconnect_failed"), exec_command or a read raised paramiko.SSHException
\* ("ssh_exception") or another exception such as socket.timeout
\* ("exception"), or the command ended with an exit status ("completed").
ExecEvent(kind, exit_status, stdout, text) ==
    [kind |-> kind, exit_status |-> exit_status, stdout |-> stdout, text |-> text]

\* mutant: only paramiko.SSHException is caught around exec_command
execute_command_returns_ssh_only(event) ==
    IF event.kind = "reconnect_failed"
    THEN [raised |-> FALSE, ret |-> ExecReconnectFailed(event.text)]
    ELSE IF event.kind = "completed"
    THEN [raised |-> FALSE, ret |-> ExecCompleted(event.exit_status, event.stdout, event.text)]
    ELSE IF event.kind = "ssh_exception"
    THEN [raised |-> FALSE, ret |-> ExecRaised(event.text)]
    ELSE [raised |-> TRUE, ret |-> ExecRaised(event.text)]

\* ssh_utils.py lines 97-123: every event ends in a return statement; raised
\* says that an exception leaves the call instead
execute_command_returns(event) ==
    IF event.kind = "reconnect_failed"
    THEN [raised |-> FALSE, ret |-> ExecReconnectFailed(event.text)]
    ELSE IF event.kind = "completed"
    THEN [raised |-> FALSE, ret |-> ExecCompleted(event.exit_status, event.stdout, event.text)]
    ELSE IF event.kind = "ssh_exception"
    THEN [raised |-> FALSE, ret |-> ExecRaised(event.text)]
    ELSE [raised |-> FALSE, ret |-> ExecRaised(event.text)]

ClassifyIdle ==
    /\ input_words = <<>>
    /\ log_content = <<>>
    /\ classified = <<>>

InitResolve ==
    /\ ClassifyIdle
    /\ SessionIdle
    /\ AuxIdle
    /\ current_date \in CurrentDates
    /\ exec_kind \in ExecKinds
    /\ tail_lines \in (IF exec_kind = "ok" THEN TailSeqs(MaxLines) ELSE TailSeqs(1))
    /\ rw_bulletin \in 1..Len(BULLETINS)
    /\ rw_pc = "check"
    /\ fetch = "none"
    /\ log_content_for_check = <<>>
    /\ record = <<>>

\* lines 221-239: the session is asked is_active()
SummaryCheckActive ==
    /\ rw_pc = "check"
    /\ \E active \in BOOLEAN :
        IF active
        THEN /\ rw_pc' = "fetch"
             /\ UNCHANGED record
        ELSE /\ rw_pc' = "done"
             /\ record' = <<SummaryInactive(BULLETINS[rw_bulletin], current_date)>>
    /\ UNCHANGED <<classify_vars, session_vars, aux_vars, current_date, tail_lines, exec_kind, rw_bulletin,
                   fetch, log_content_for_check>>

\* line 242: get_log_content_for_date_range(log_path, yesterday_date, current_date)
SummaryFetchLog ==
    /\ rw_pc = "fetch"
    /\ \E active \in BOOLEAN :
        IF ~active
        THEN /\ log_content_for_check' = LogContentInactive
             /\ fetch' = "inactive"
        ELSE LET result == ExecResult(exec_kind, TailOutput(current_date, tail_lines))
             IN  /\ log_content_for_check' =
                        LogContentFetched(BULLETINS[rw_bulletin].log_path,
                                          PrevDay(DateOf(current_date)),
                                          DateOf(current_date), result)
                 /\ fetch' = IF result.success THEN "ok" ELSE "failed"
    /\ rw_pc' = "resolve"
    /\ UNCHANGED <<classify_vars, session_vars, aux_vars, current_date, tail_lines, exec_kind, rw_bulletin, record>>

\* lines 244-322: the status, then file_exists for every product
SummaryResolve ==
    /\ rw_pc = "resolve"
    /\ \E active \in BOOLEAN :
       \E exists \in [1..Len(BULLETINS[rw_bulletin].product_paths) ->
                        file_exists_answers(active)] :
        record' = <<SummaryFetched(BULLETINS[rw_bulletin], current_date,
                                   log_content_for_check, exists)>>
    /\ remote_ops' = ExistenceChecks(BULLETINS[rw_bulletin], current_date)
    /\ rw_pc' = "done"
    /\ UNCHANGED <<classify_vars, session_vars, config_vars, template_pieces, resolved,
                   handler_vars, current_date, tail_lines, exec_kind, rw_bulletin,
                   fetch, log_content_for_check>>

NextResolve == SummaryCheckActive \/ SummaryFetchLog \/ SummaryResolve

SpecResolve == InitResolve /\ [][NextResolve]_vars

\* --- what the remote log holds, read off the table of lines ---
TailLine(i) == LogLines(current_date)[tail_lines[i]]

\* the day has a line that starts with a valid full timestamp
TailHasValidTs(day) ==
    \E i \in 1..Len(tail_lines) : TailLine(i).day = day /\ TailLine(i).ts

\* the latest valid timestamp of the day, as text
TailLatestTs(day, date) ==
    LET cand == {i \in 1..Len(tail_lines) : TailLine(i).day = day /\ TailLine(i).ts}
        best == CHOOSE i \in cand : \A j \in cand : TailLine(j).tkey <= TailLine(i).tkey
    IN  FormatDate(date) \o <<" ">> \o TailLine(best).time

\* the day's bucket: the lines dated that day and the lines without a valid
\* date marker that follow while that day's bucket is the open one
RECURSIVE BucketFrom(_, _, _)
BucketFrom(i, open, day) ==
    IF i > Len(tail_lines) THEN <<>>
    ELSE LET d == TailLine(i).day
             now_open == IF d \in {"today", "yesterday", "older"} THEN d ELSE open
         IN  (IF now_open = day THEN <<TailLine(i).chars>> ELSE <<>>)
                 \o BucketFrom(i + 1, now_open, day)

BucketText(day) == JoinLines(BucketFrom(1, "none", day))

RunDone == rw_pc = "done" /\ record # <<>>

\* C2 (as claimed): whenever the log fetch fails, because the session is
\* inactive or because the tail command reports failure, the status of the
\* record is SSH_ERROR.
C2_FetchFailureIsSshError ==
    (RunDone /\ fetch \in {"inactive", "failed"}) => record[1].status = "SSH_ERROR"

\* C6 (as claimed): when the fetch succeeded and today's bucket has a line with
\* a valid full timestamp, status and has_warnings are those of the classifier
\* on the text of today's bucket, and last_run is a valid timestamp dated today.
C6_TodayDecides ==
    (RunDone /\ fetch = "ok" /\ TailHasValidTs("today")) =>
        /\ record[1].status = parse_log_status(BucketText("today")).status
        /\ record[1].has_warnings = parse_log_status(BucketText("today")).has_warnings
        /\ StartsWith(record[1].last_run, FormatDate(DateOf(current_date)))
        /\ MatchesTimestampPattern(record[1].last_run)
        /\ ValidDateTime(record[1].last_run)

\* C7 (as claimed): when the fetch succeeded, today has no valid timestamp and
\* yesterday has one, the status is PENDING, has_warnings is FALSE and last_run
\* contains yesterday's latest valid timestamp.
C7_YesterdayOnlyIsPending ==
    (RunDone /\ fetch = "ok" /\ ~TailHasValidTs("today") /\ TailHasValidTs("yesterday")) =>
        /\ record[1].status = "PENDING"
        /\ ~record[1].has_warnings
        /\ Contains(record[1].last_run,
                    TailLatestTs("yesterday", PrevDay(DateOf(current_date))))

\* C8 (as claimed): when the fetch succeeded and neither today nor yesterday
\* has a line with a valid timestamp, the status is NO_RECENT_RUN.
C8_NoValidTsIsNoRecentRun ==
    (RunDone /\ fetch = "ok" /\ ~TailHasValidTs("today") /\ ~TailHasValidTs("yesterday")) =>
        record[1].status = "NO_RECENT_RUN"

(***************************************************************************)
(* Classifier run: the texts parse_log_status is applied to                *)
(***************************************************************************)
MaxWords == 3

\* The words texts are built from, each with the keyword class it belongs to
\* ("marker" is the fetch-error marker, "none" a word of no class).
Words == <<
    [cls |-> "critical", chars |-> <<"C","R","I","T","I","C","A","L">>],
    [cls |-> "critical", chars |-> <<"F","a","t","a","l">>],
    [cls |-> "critical", chars |-> <<"s","e","v","e","r","e">>],
    [cls |-> "error",    chars |-> <<"E","R","R","O","R">>],
    [cls |-> "error",    chars |-> <<"f","a","i","l","u","r","e">>],
    [cls |-> "error",    chars |-> <<"F","a","i","l","e","d">>],
    [cls |-> "error",    chars |-> <<"e","x","c","e","p","t","i","o","n">>],
    [cls |-> "success",  chars |-> <<"S","U","C","C","E","S","S">>],
    [cls |-> "success",  chars |-> <<"C","o","m","p","l","e","t","e","d">>],
    [cls |-> "success",  chars |-> <<"u","n","f","i","n","i","s","h","e","d">>],
    [cls |-> "warning",  chars |-> <<"W","A","R","N","I","N","G">>],
    [cls |-> "warning",  chars |-> <<"w","a","r","n">>],
    [cls |-> "none",     chars |-> <<"o","k">>],
    [cls |-> "marker",   chars |-> FetchErrorMarker] >>

WordSeqs == UNION {[1..n -> 1..Len(Words)] : n \in 0..MaxWords}

\* the words separated by single spaces
RECURSIVE JoinWords(_)
JoinWords(ws) ==
    IF ws = <<>> THEN <<>>
    ELSE IF Len(ws) = 1 THEN Words[ws[1]].chars
    ELSE Words[ws[1]].chars \o <<" ">> \o JoinWords(Tail(ws))

HasClass(ws, c) == \E i \in 1..Len(ws) : Words[ws[i]].cls = c

ResolveIdle ==
    /\ current_date = CHOOSE d \in CurrentDates : TRUE
    /\ tail_lines = <<>>
    /\ exec_kind = "ok"
    /\ rw_bulletin = 1
    /\ rw_pc = "done"
    /\ fetch = "none"
    /\ log_content_for_check = <<>>
    /\ record = <<>>

InitClassify ==
    /\ ResolveIdle
    /\ SessionIdle
    /\ AuxIdle
    /\ input_words \in WordSeqs
    /\ log_content = JoinWords(input_words)
    /\ classified = <<>>

\* status, has_warnings = parse_log_status(log_content)
ParseLogStatus ==
    /\ classified = <<>>
    /\ classified' = <<parse_log_status(log_content)>>
    /\ UNCHANGED <<input_words, log_content, resolve_vars, session_vars, aux_vars>>

NextClassify == ParseLogStatus

SpecClassify == InitClassify /\ [][NextClassify]_vars

\* the status of the highest-priority keyword class among the words of a text
ExpectedStatus(ws) ==
    IF HasClass(ws, "critical") THEN "CRITICAL"
    ELSE IF HasClass(ws, "error") THEN "FAILED"
    ELSE IF HasClass(ws, "success") THEN "SUCCESS"
    ELSE IF HasClass(ws, "warning") THEN "WARNING"
    ELSE "UNKNOWN"

\* C3: for every non-empty text without the fetch-error marker, the status is
\* that of the highest-priority keyword class present, in the order
\* CRITICAL > FAILED > SUCCESS > WARNING, whatever the letter case of the
\* keywords, and UNKNOWN when no keyword is present.
C3_ClassifyPriority ==
    (classified # <<>> /\ input_words # <<>> /\ ~HasClass(input_words, "marker"))
        => classified[1].status = ExpectedStatus(input_words)

\* a text with a critical, a success and a warning keyword was classified CRITICAL
C3_Witness ==
    /\ classified # <<>>
    /\ ~HasClass(input_words, "marker")
    /\ HasClass(input_words, "critical")
    /\ HasClass(input_words, "success")
    /\ HasClass(input_words, "warning")
    /\ classified[1].status = "CRITICAL"

\* C4: a text with a success and a warning keyword, and no critical or error
\* keyword (and no fetch-error marker), is SUCCESS with has_warnings = TRUE.
C4_SuccessKeepsWarnings ==
    (/\ classified # <<>>
     /\ HasClass(input_words, "success")
     /\ HasClass(input_words, "warning")
     /\ ~HasClass(input_words, "critical")
     /\ ~HasClass(input_words, "error")
     /\ ~HasClass(input_words, "marker"))
        => classified[1] = [status |-> "SUCCESS", has_warnings |-> TRUE]

\* a text with a success and a warning keyword was classified
C4_Witness ==
    /\ classified # <<>>
    /\ HasClass(input_words, "success")
    /\ HasClass(input_words, "warning")
    /\ ~HasClass(input_words, "critical")
    /\ ~HasClass(input_words, "error")
    /\ ~HasClass(input_words, "marker")
    /\ classified[1].has_warnings

\* C5: the empty text and every text containing the fetch-error marker are
\* (UNKNOWN, has_warnings = FALSE), whatever keywords the text also contains.
C5_EmptyOrMarkerUnknown ==
    (classified # <<>> /\ (input_words = <<>> \/ HasClass(input_words, "marker")))
        => classified[1] = [status |-> "UNKNOWN", has_warnings |-> FALSE]

\* a text with the marker, a critical keyword and a success keyword was classified
C5_Witness ==
    /\ classified # <<>>
    /\ HasClass(input_words, "marker")
    /\ HasClass(input_words, "critical")
    /\ HasClass(input_words, "success")
    /\ classified[1].status = "UNKNOWN"

(***************************************************************************)
(* The application: the session built at start-up, the remote host, and    *)
(* requests GET /api/bulletins served by one thread each.  A step of a     *)
(* request runs from one use of the shared session to the next.            *)
(***************************************************************************)
\* the remote logs the tail command can show in this run (indexes into LogLines)
SessionTails == {<<1>>}

\* current_date = datetime.datetime.now()
Now == [year |-> 2024, month |-> 3, day |-> 5, hour |-> 9, minute |-> 45, second |-> 7]

\* ssh_utils.py lines 18-31 and app.py lines 19-28: bqrm_ssh_client = BQRMSshClient()
Init ==
    /\ ClassifyIdle
    /\ AuxIdle
    /\ current_date = Now
    /\ tail_lines = <<>>
    /\ exec_kind = "ok"
    /\ rw_bulletin = 1
    /\ rw_pc = "done"
    /\ fetch = "none"
    /\ log_content_for_check = <<>>
    /\ record = <<>>
    /\ \E up \in BOOLEAN :
        /\ session = _connect(NewSession, up, 1).sess
        /\ next_conn = IF up THEN 2 ELSE 1
    /\ drops = 0
    /\ last_connect = NoConnect
    /\ pc = [r \in Reqs |-> "hook"]
    /\ idx = [r \in Reqs |-> 1]
    /\ results = [r \in Reqs |-> <<>>]
    /\ resp = [r \in Reqs |-> NoResponse]
    /\ hook = [r \in Reqs |-> "none"]
    /\ ec = [r \in Reqs |-> NoCall]
    /\ rw = [r \in Reqs |-> NoRun]

idle_vars == <<classify_vars, resolve_vars, aux_vars>>

\* what a call of _connect by request r leaves in last_connect
ConnectRecord(r, c) ==
    [called |-> TRUE, by |-> r, was_live |-> is_active(session),
     closed_old |-> c.closed_old, ok |-> c.ok,
     same_transport |-> c.sess.conn = session.conn, drops |-> drops]

\* the body of the 503 answer of the hook
HookInactiveBody == <<"SYSTEM_ERROR">>

\* the transport died (the network, the remote host)
TransportDrop ==
    /\ transport_active(session)
    /\ drops < MaxDrops
    /\ session' = [session EXCEPT !.active = FALSE]
    /\ drops' = drops + 1
    /\ UNCHANGED <<idle_vars, next_conn, last_connect,
                   pc, idx, results, resp, hook, ec, rw>>

\* app.py lines 483-488: the hook asks is_active()
HookCheck(r) ==
    /\ pc[r] = "hook"
    /\ IF is_active(session)
       THEN /\ pc' = [pc EXCEPT ![r] = "summary"]
            /\ hook' = [hook EXCEPT ![r] = "active"]
       ELSE /\ pc' = [pc EXCEPT ![r] = "hook_connect"]
            /\ hook' = [hook EXCEPT ![r] = "inactive"]
    /\ UNCHANGED <<idle_vars, session, next_conn, drops,
                   last_connect, idx, results, resp, ec, rw>>

\* app.py lines 489-490 and 494-496: bqrm_ssh_client._connect(); when it raises,
\* the answer is 503
HookConnect(r) ==
    /\ pc[r] = "hook_connect"
    /\ \E up \in BOOLEAN :
       LET c == _connect(session, up, next_conn)
       IN  /\ session' = c.sess
           /\ next_conn' = IF c.sess.conn = next_conn THEN next_conn + 1 ELSE next_conn
           /\ last_connect' = ConnectRecord(r, c)
           /\ IF c.ok
              THEN /\ pc' = [pc EXCEPT ![r] = "hook_recheck"]
                   /\ UNCHANGED <<hook, resp>>
              ELSE /\ pc' = [pc EXCEPT ![r] = "done"]
                   /\ hook' = [hook EXCEPT ![r] = "failed"]
                   /\ resp' = [resp EXCEPT ![r] = [code |-> 503, body |-> HookInactiveBody]]
    /\ UNCHANGED <<idle_vars, drops, idx, results, ec, rw>>

\* mutant: a request that found the session inactive is answered 503 although
\* the connect succeeded
HookRecheck_reject(r) ==
    /\ pc[r] = "hook_recheck"
    /\ pc' = [pc EXCEPT ![r] = "done"]
    /\ hook' = [hook EXCEPT ![r] = "lost"]
    /\ resp' = [resp EXCEPT ![r] = [code |-> 503, body |-> HookInactiveBody]]
    /\ UNCHANGED <<idle_vars, session, next_conn, drops,
                   last_connect, idx, results, ec, rw>>

\* app.py lines 491-496: is_active() after the connect; 503 when it is false
\* (hook "lost": the session made by the connect is not active any more)
HookRecheck(r) ==
    /\ pc[r] = "hook_recheck"
    /\ IF is_active(session)
       THEN /\ pc' = [pc EXCEPT ![r] = "summary"]
            /\ hook' = [hook EXCEPT ![r] = "reconnected"]
            /\ UNCHANGED resp
       ELSE /\ pc' = [pc EXCEPT ![r] = "done"]
            /\ hook' = [hook EXCEPT ![r] = "lost"]
            /\ resp' = [resp EXCEPT ![r] = [code |-> 503, body |-> HookInactiveBody]]
    /\ UNCHANGED <<idle_vars, session, next_conn, drops,
                   last_connect, idx, results, ec, rw>>

\* mutant: a record with status SSH_ERROR ends the request with a 500
AppendAndAdvance_abort_on_error(r, rec) ==
    IF rec.status = "SSH_ERROR"
    THEN /\ UNCHANGED <<results, idx>>
         /\ pc' = [pc EXCEPT ![r] = "done"]
         /\ resp' = [resp EXCEPT ![r] = [code |-> 500, body |-> <<>>]]
    ELSE /\ results' = [results EXCEPT ![r] = Append(@, rec)]
         /\ IF idx[r] < Len(BULLETINS)
            THEN /\ idx' = [idx EXCEPT ![r] = @ + 1]
                 /\ pc' = [pc EXCEPT ![r] = "summary"]
                 /\ UNCHANGED resp
            ELSE /\ UNCHANGED idx
                 /\ pc' = [pc EXCEPT ![r] = "done"]
                 /\ resp' = [resp EXCEPT ![r] = [code |-> 200, body |-> Append(results[r], rec)]]

\* app.py lines 350-352: the record of bulletin idx[r] is appended; after the
\* last bulletin the answer is jsonify(results)
AppendAndAdvance(r, rec) ==
    /\ results' = [results EXCEPT ![r] = Append(@, rec)]
    /\ IF idx[r] < Len(BULLETINS)
       THEN /\ idx' = [idx EXCEPT ![r] = @ + 1]
            /\ pc' = [pc EXCEPT ![r] = "summary"]
            /\ UNCHANGED resp
       ELSE /\ UNCHANGED idx
            /\ pc' = [pc EXCEPT ![r] = "done"]
            /\ resp' = [resp EXCEPT ![r] = [code |-> 200, body |-> Append(results[r], rec)]]

\* app.py lines 221-239: get_bulletin_details_summary asks is_active()
SummaryCheck(r) ==
    /\ pc[r] = "summary"
    /\ IF is_active(session)
       THEN /\ pc' = [pc EXCEPT ![r] = "fetch"]
            /\ UNCHANGED <<idx, results, resp>>
       ELSE AppendAndAdvance(r, SummaryInactive(BULLETINS[idx[r]], current_date))
    /\ UNCHANGED <<idle_vars, session, next_conn, drops,
                   last_connect, hook, ec, rw>>

\* app.py lines 242-295 once get_log_content_for_date_range has the content
Resolved(r, content) ==
    /\ rw' = [rw EXCEPT ![r] = ResolveRunWindow(content, DateOf(current_date))]
    /\ pc' = [pc EXCEPT ![r] = "products"]

\* app.py lines 150-177 and 244-295 once execute_command has ended on event:
\* it returned its triple, or an exception left it and the request with it
Returned(r, call, event) ==
    LET out == execute_command_returns(event)
    IN  IF out.raised
        THEN /\ ec' = [ec EXCEPT ![r] = [call EXCEPT !.event = event, !.raised = TRUE]]
             /\ pc' = [pc EXCEPT ![r] = "raised"]
             /\ UNCHANGED rw
        ELSE /\ ec' = [ec EXCEPT ![r] = [call EXCEPT !.event = event, !.ret = <<out.ret>>]]
             /\ Resolved(r, LogContentFetched(BULLETINS[idx[r]].log_path,
                                              PrevDay(DateOf(current_date)),
                                              DateOf(current_date), out.ret))

\* app.py lines 145-147: get_log_content_for_date_range asks is_active()
FetchCheck(r) ==
    /\ pc[r] = "fetch"
    /\ IF is_active(session)
       THEN /\ pc' = [pc EXCEPT ![r] = "ec_check"]
            /\ ec' = [ec EXCEPT ![r] = NoCall]
            /\ UNCHANGED rw
       ELSE /\ Resolved(r, LogContentInactive)
            /\ UNCHANGED ec
    /\ UNCHANGED <<idle_vars, session, next_conn, drops,
                   last_connect, idx, results, resp, hook>>

\* ssh_utils.py line 97: execute_command asks is_active()
EcCheck(r) ==
    /\ pc[r] = "ec_check"
    /\ IF is_active(session)
       THEN /\ pc' = [pc EXCEPT ![r] = "ec_issue"]
            /\ ec' = [ec EXCEPT ![r].entry = "active"]
       ELSE /\ pc' = [pc EXCEPT ![r] = "ec_connect"]
            /\ ec' = [ec EXCEPT ![r].entry = "inactive"]
    /\ UNCHANGED <<idle_vars, session, next_conn, drops,
                   last_connect, idx, results, resp, hook, rw>>

\* ssh_utils.py lines 99-103: the reconnect of execute_command
EcConnect(r) ==
    /\ pc[r] = "ec_connect"
    /\ \E up \in BOOLEAN :
       LET c == execute_command_reconnect(session, up, next_conn)
           call == [ec[r] EXCEPT !.connects = @ + c.attempts,
                                 !.connect_ok = c.ok,
                                 !.conn_made = IF c.ok THEN c.sess.conn ELSE 0,
                                 !.drops_made = drops]
       IN  /\ session' = c.sess
           /\ next_conn' = IF c.sess.conn = next_conn THEN next_conn + 1 ELSE next_conn
           /\ last_connect' = ConnectRecord(r, c)
           /\ IF c.ok
              THEN /\ pc' = [pc EXCEPT ![r] = "ec_issue"]
                   /\ ec' = [ec EXCEPT ![r] = call]
                   /\ UNCHANGED rw
              ELSE Returned(r, call,
                            ExecEvent("reconnect_failed", 0, <<>>, ConnectErrorText))
    /\ UNCHANGED <<idle_vars, drops, idx, results, resp, hook>>

\* ssh_utils.py line 107: self.client.exec_command(command), which raises
\* SSHException on a client without active transport
EcIssue(r) ==
    /\ pc[r] = "ec_issue"
    /\ LET call == [ec[r] EXCEPT !.attempted = TRUE,
                                 !.issued_on = IF transport_active(session)
                                               THEN session.conn ELSE 0,
                                 !.undisturbed = /\ ec[r].connect_ok
                                                 /\ drops = ec[r].drops_made
                                                 /\ last_connect.by = r]
       IN  IF transport_active(session)
           THEN /\ pc' = [pc EXCEPT ![r] = "ec_read"]
                /\ ec' = [ec EXCEPT ![r] = call]
                /\ UNCHANGED rw
           ELSE Returned(r, call, ExecEvent("ssh_exception", 0, <<>>, SessionNotActiveText))
    /\ UNCHANGED <<idle_vars, session, next_conn, drops,
                   last_connect, idx, results, resp, hook>>

\* What the reads of ssh_utils.py lines 108-110 can meet.  On the transport
\* the command was issued on: the command ends with status 0 and a log, or
\* with status 1, some output and a message on stderr, or a read times out;
\* when that transport is gone: a read raises, or the status is -1 and there
\* is no output.
ReadEvents(live) ==
    IF live
    THEN {ExecEvent("completed", 0, TailOutput(current_date, t), <<>>) : t \in SessionTails}
            \cup {ExecEvent("completed", 1, TailOutput(current_date, t), NoSuchFile \o <<NL>>) :
                        t \in SessionTails}
            \cup {ExecEvent("exception", 0, <<>>, TimeoutText)}
    ELSE {ExecEvent("ssh_exception", 0, <<>>, TimeoutText),
          ExecEvent("completed", 0 - 1, <<>>, <<>>)}

\* ssh_utils.py lines 108-123: the exit status and the output are read
EcRead(r) ==
    /\ pc[r] = "ec_read"
    /\ \E event \in ReadEvents(transport_active(session) /\ session.conn = ec[r].issued_on) :
        Returned(r, ec[r], event)
    /\ UNCHANGED <<idle_vars, session, next_conn, drops,
                   last_connect, idx, results, resp, hook>>

\* app.py lines 297-322: file_exists for every product, then the record
Products(r) ==
    /\ pc[r] = "products"
    /\ \E exists \in [1..Len(BULLETINS[idx[r]].product_paths) ->
                        file_exists_answers(is_active(session))] :
        AppendAndAdvance(r, SummaryRecord(BULLETINS[idx[r]], current_date, rw[r], exists))
    /\ ec' = [ec EXCEPT ![r] = NoCall]
    /\ rw' = [rw EXCEPT ![r] = NoRun]
    /\ UNCHANGED <<idle_vars, session, next_conn, drops,
                   last_connect, hook>>

Next ==
    \/ TransportDrop
    \/ \E r \in Reqs :
        \/ HookCheck(r)
        \/ HookConnect(r)
        \/ HookRecheck(r)
        \/ SummaryCheck(r)
        \/ FetchCheck(r)
        \/ EcCheck(r)
        \/ EcConnect(r)
        \/ EcIssue(r)
        \/ EcRead(r)
        \/ Products(r)

Spec == Init /\ [][Next]_vars

\* C1 (as claimed): a list-statuses request that found the session inactive on
\* arrival, the session not being brought back, is answered 200 with one entry
\* per configured bulletin, every entry SSH_ERROR with every product unavailable.
C1_InactiveAtArrivalAnswers200 ==
    \A r \in Reqs :
        (pc[r] = "done" /\ hook[r] = "failed") =>
            /\ resp[r].code = 200
            /\ Len(resp[r].body) = Len(BULLETINS)
            /\ \A i \in 1..Len(resp[r].body) :
                /\ resp[r].body[i].status = "SSH_ERROR"
                /\ \A p \in 1..Len(resp[r].body[i].product_info) :
                    ~resp[r].body[i].product_info[p].available

\* C9: in one call of execute_command entered with the session inactive,
\* _connect is called exactly once (and never when the session was active on
\* entry); when that connect fails the call returns (False, "", error) without
\* issuing the command; when it succeeds the command is issued on the
\* session's transport, which is the one just made whenever no transport died
\* and no other request called _connect in between, and never an older one.
C9_ExactlyOneConnect ==
    \A r \in Reqs :
        /\ ec[r].connects <= 1
        /\ (ec[r].entry = "active" => ec[r].connects = 0)
        /\ ((ec[r].entry = "inactive" /\ pc[r] # "ec_connect") => ec[r].connects = 1)
        /\ ((ec[r].connects > 0 /\ ~ec[r].connect_ok) =>
                /\ ~ec[r].attempted
                /\ ec[r].ret # <<>>
                /\ ~ec[r].ret[1].success
                /\ ec[r].ret[1].output = <<>>
                /\ StartsWith(ec[r].ret[1].error, ReconnectFailedPrefix))
        /\ ((ec[r].connect_ok /\ ec[r].attempted) =>
                /\ (ec[r].issued_on = 0 \/ ec[r].issued_on >= ec[r].conn_made)
                /\ (ec[r].undisturbed => ec[r].issued_on = ec[r].conn_made))
        /\ ((ec[r].connect_ok /\ ~ec[r].attempted) => pc[r] = "ec_issue")

\* a call entered with the session inactive connected once and issued the
\* command on the transport it made
C9_Witness ==
    \E r \in Reqs :
        /\ ec[r].entry = "inactive"
        /\ ec[r].connects = 1
        /\ ec[r].connect_ok
        /\ ec[r].attempted
        /\ ec[r].issued_on = ec[r].conn_made
        /\ ec[r].issued_on # 0

\* a call entered with the session inactive whose one connect failed has returned
C9_FailedReconnectReturned ==
    \E r \in Reqs :
        /\ ec[r].entry = "inactive"
        /\ ec[r].connects = 1
        /\ ~ec[r].connect_ok
        /\ ec[r].ret # <<>>

\* C10 (as claimed): _connect called on a session that is connected and live
\* closes nothing and leaves the session with the transport it had.
C10_ConnectIdempotent ==
    (last_connect.called /\ last_connect.was_live) =>
        (~last_connect.closed_old /\ last_connect.same_transport)

\* C10 (amended): _connect called on a session that is connected and live
\* closes the live transport and attempts a new connection, so the session's
\* transport after the call is never the one it had before.
C10_ConnectReplacesLiveTransport ==
    (last_connect.called /\ last_connect.was_live) =>
        (last_connect.closed_old /\ ~last_connect.same_transport)

\* _connect was called on a connected and live session and succeeded
C10_Witness ==
    /\ last_connect.called
    /\ last_connect.was_live
    /\ last_connect.ok

\* C11 (as claimed): at no time are two calls of execute_command both between
\* issuing their command and finishing the read of its response on the same
\* transport of the shared session.
C11_CommandsSerialized ==
    \A r1, r2 \in Reqs :
        (r1 # r2 /\ pc[r1] = "ec_read" /\ pc[r2] = "ec_read") =>
            ec[r1].issued_on # ec[r2].issued_on

\* the text of a tail of the log without its line breaks at the end
ExpectedOutput(t) == JoinLines([i \in 1..Len(t) |-> LogLines(current_date)[t[i]].chars])

\* C12: no exception leaves a call of execute_command; whatever happened
\* inside it (failed reconnect, transport error, timeout, any exit status) it
\* returns a triple whose success is TRUE exactly when the command ran and
\* ended with exit status 0, and on another exit status the triple carries the
\* output read so far and the text of stderr.
C12_AlwaysReturnsTriple ==
    \A r \in Reqs :
        /\ pc[r] # "raised"
        /\ ~ec[r].raised
        /\ (ec[r].event.kind # "none" => ec[r].ret # <<>>)
        /\ (ec[r].ret # <<>> =>
                /\ DOMAIN ec[r].ret[1] = {"success", "output", "error"}
                /\ ec[r].ret[1].success <=>
                        (ec[r].event.kind = "completed" /\ ec[r].event.exit_status = 0
                            /\ ec[r].attempted /\ ec[r].issued_on # 0)
                /\ (ec[r].event.kind # "completed" => ec[r].ret[1].output = <<>>)
                /\ ((ec[r].event.kind = "completed" /\ ec[r].event.stdout # <<>>) =>
                        \E t \in SessionTails :
                            /\ ec[r].event.stdout = TailOutput(current_date, t)
                            /\ ec[r].ret[1].output = ExpectedOutput(t))
                /\ ((ec[r].event.kind = "completed" /\ ec[r].event.exit_status = 1) =>
                        ec[r].ret[1].error = NoSuchFile))

\* a command that ended with exit status 1 after writing output has returned
C12_Witness ==
    \E r \in Reqs :
        /\ ec[r].ret # <<>>
        /\ ec[r].event.kind = "completed"
        /\ ec[r].event.exit_status = 1
        /\ ec[r].event.stdout # <<>>
        /\ ~ec[r].ret[1].success
        /\ ec[r].ret[1].output # <<>>

\* C13: a GET /api/bulletins request that reached get_all_bulletins_status
\* is answered 200 with exactly one entry per configured bulletin, in the order
\* of BULLETINS, whatever failed while a record was computed (inactive
\* session, failed log fetch, unresolvable product template, existence check
\* answering false); until then the entries gathered are those of the
\* bulletins already visited, in order, and no exception ends the request.
C13_OneEntryPerBulletin ==
    \A r \in Reqs :
        /\ pc[r] # "raised"
        /\ (pc[r] \in {"summary", "fetch", "ec_check", "ec_connect", "ec_issue", "ec_read", "products"} =>
                /\ Len(results[r]) = idx[r] - 1
                /\ \A i \in 1..Len(results[r]) : results[r][i].id = BULLETINS[i].id)
        /\ ((pc[r] = "done" /\ hook[r] \in {"active", "reconnected"}) =>
                /\ resp[r].code = 200
                /\ Len(resp[r].body) = Len(BULLETINS)
                /\ \A i \in 1..Len(BULLETINS) :
                      /\ resp[r].body[i].id = BULLETINS[i].id
                      /\ Len(resp[r].body[i].product_info) = Len(BULLETINS[i].product_paths))

\* a request answered with both entries although the first bulletin's record is
\* SSH_ERROR and, in the second, one product template did not resolve and the
\* existence check of the other answered false; and a request whose log fetch
\* for the second bulletin has just failed, the first entry still in its list
C13_Witness ==
    \E r, q \in Reqs :
        /\ pc[r] = "done" /\ resp[r].code = 200
        /\ resp[r].body[1].status = "SSH_ERROR"
        /\ resp[r].body[2].status # "SSH_ERROR"
        /\ resp[r].body[2].product_info[2].remote_path = <<>>
        /\ resp[r].body[2].product_info[1].remote_path # <<>>
        /\ ~resp[r].body[2].product_info[1].available
        /\ pc[q] = "products" /\ idx[q] = 2
        /\ ec[q].ret # <<>> /\ ~ec[q].ret[1].success
        /\ Len(results[q]) = 1

\* C14: a request that finds the session inactive (after a transport died,
\* or because the connect at startup failed) calls _connect itself; when that
\* connect succeeds the request is not rejected: it goes on to its handler and
\* is answered 200 with every bulletin's entry.  A 503 is given only when the
\* request's connect raised, or when the session it made was lost again before
\* the second is_active() (a transport died since, or another request has
\* called _connect since).
C14_InlineReconnectServes ==
    \A r \in Reqs :
        /\ (resp[r].code = 503 => hook[r] \in {"failed", "lost"})
        /\ (hook[r] = "failed" => (last_connect.by # r \/ ~last_connect.ok))
        /\ (hook[r] = "lost" => (last_connect.by # r \/ drops > last_connect.drops))
        /\ ((pc[r] = "hook_recheck" /\ last_connect.by = r /\ drops = last_connect.drops) =>
                is_active(session))
        /\ (hook[r] = "reconnected" =>
                /\ resp[r].code \in {0, 200}
                /\ (pc[r] = "done" =>
                        /\ resp[r].code = 200
                        /\ Len(resp[r].body) = Len(BULLETINS)))

\* the connect at startup had failed: the request made the session's first
\* transport in the hook and was answered 200, the second bulletin's status
\* read from its log
C14_Witness ==
    \E r \in Reqs :
        /\ hook[r] = "reconnected"
        /\ pc[r] = "done"
        /\ resp[r].code = 200
        /\ last_connect.by = r /\ ~last_connect.was_live /\ last_connect.ok
        /\ session.conn = 1
        /\ resp[r].body[2].status \notin {"SSH_ERROR", "NO_RECENT_RUN"}

(***************************************************************************)
(* The session on its own: bqrm_ssh_client is built under one              *)
(* configuration, then _connect and close() are called in any order while  *)
(* the transport may die at any time.                                      *)
(***************************************************************************)
MaxCloses == 3
MaxConnects == 3

\* config.py lines 10-13: BQRM_HOST and BQRM_USER, BQRM_PRIVATE_KEY_PATH, the
\* key file on disk, BQRM_PASSWORD
CredentialSets ==
    [host_user : BOOLEAN, key_path : BOOLEAN, key_file : BOOLEAN, password : BOOLEAN]

RequestsIdle ==
    /\ drops = 0
    /\ last_connect = NoConnect
    /\ pc = [r \in Reqs |-> "done"]
    /\ idx = [r \in Reqs |-> 1]
    /\ results = [r \in Reqs |-> <<>>]
    /\ resp = [r \in Reqs |-> NoResponse]
    /\ hook = [r \in Reqs |-> "none"]
    /\ ec = [r \in Reqs |-> NoCall]
    /\ rw = [r \in Reqs |-> NoRun]

\* ssh_utils.py lines 18-31: BQRMSshClient() calls _connect and keeps the
\* object when it raises
InitSession ==
    /\ ClassifyIdle
    /\ ResolveIdle
    /\ RequestsIdle
    /\ CallIdle
    /\ credentials \in CredentialSets
    /\ close_calls = 0
    /\ \E accepts \in SUBSET Credentials :
        LET c == _connect_configured(NewSession, credentials, accepts, 1)
        IN  /\ session = c.sess
            /\ next_conn = IF c.ok THEN 2 ELSE 1
            /\ auth_used = [tried |-> c.tried, accepts |-> accepts, ok |-> c.ok]

\* a call of _connect (the hook, execute_command)
SessConnect ==
    /\ next_conn <= MaxConnects
    /\ \E accepts \in SUBSET Credentials :
        LET c == _connect_configured(session, credentials, accepts, next_conn)
        IN  /\ session' = c.sess
            /\ next_conn' = IF c.ok THEN next_conn + 1 ELSE next_conn
            /\ auth_used' = [tried |-> c.tried, accepts |-> accepts, ok |-> c.ok]
            /\ close_calls' = IF c.ok THEN 0 ELSE close_calls
    /\ UNCHANGED <<classify_vars, resolve_vars, call_vars, credentials,
                   drops, last_connect, pc, idx, results, resp, hook, ec, rw>>

\* the transport died
SessDrop ==
    /\ transport_active(session)
    /\ session' = [session EXCEPT !.active = FALSE]
    /\ UNCHANGED <<classify_vars, resolve_vars, call_vars, config_vars, next_conn,
                   drops, last_connect, pc, idx, results, resp, hook, ec, rw>>

\* a call of close()
SessClose ==
    /\ close_calls < MaxCloses
    /\ session' = close(session)
    /\ close_calls' = close_calls + 1
    /\ UNCHANGED <<classify_vars, resolve_vars, call_vars, credentials, auth_used, next_conn,
                   drops, last_connect, pc, idx, results, resp, hook, ec, rw>>

NextSession == SessConnect \/ SessDrop \/ SessClose

SpecSession == InitSession /\ [][NextSession]_vars

\* C15: close() may be called in every state of the session and any number
\* of times; once it has been called, is_active() is false until a later
\* _connect succeeds.
C15_InactiveAfterClose ==
    close_calls > 0 => ~is_active(session)

\* close() called three times in a row, the first on a transport that had
\* died (the flag _is_connected is still set)
C15_Witness ==
    /\ close_calls = MaxCloses
    /\ session.is_connected
    /\ session.conn # 0
    /\ ~is_active(session)

\* C16: with BQRM_PRIVATE_KEY_PATH naming an existing key file and
\* BQRM_PASSWORD both set, every _connect hands the key file and only the
\* key file to client.connect, and succeeds only if the host accepts the
\* key; the password is used only when no key file is there.
C16_KeyBeforePassword ==
    /\ (credentials.host_user /\ credentials.key_path /\ credentials.key_file
            /\ credentials.password) =>
                /\ auth_used.tried = <<"key">>
                /\ (auth_used.ok <=> "key" \in auth_used.accepts)
    /\ "password" \in {auth_used.tried[i] : i \in 1..Len(auth_used.tried)} =>
            /\ credentials.password
            /\ ~(credentials.key_path /\ credentials.key_file)

\* both credentials are configured, the host would accept the password but
\* not the key: the connect was tried with the key and failed
C16_Witness ==
    /\ credentials.host_user /\ credentials.key_path /\ credentials.key_file
    /\ credentials.password
    /\ auth_used.accepts = {"password"}
    /\ auth_used.tried = <<"key">>
    /\ ~auth_used.ok
    /\ next_conn > 1

\* the path of the "pdf" product of BMSLA on each current date
ExpectedPdfPath ==
    IF current_date.day = 5
    THEN <<"/","o","u","t","/","B","M","S","L","A","_","2","0","2","4","0","3","0","5",".","p","d","f">>
    ELSE <<"/","o","u","t","/","B","M","S","L","A","_","2","0","2","4","0","3","0","1",".","p","d","f">>

\* C17: in the record of a bulletin, a product whose template does not
\* resolve (the "csv" descriptor of BMSLA, which names {yyyy}) has a null
\* path and available = false, and file_exists was not called for it; the
\* other product has its resolved path, was checked when the session was
\* active, and the record carries the bulletin's status.
C17_UnresolvableProductSkipped ==
    (rw_pc = "done" /\ rw_bulletin = 2) =>
        LET info == record[1].product_info
        IN  /\ Len(info) = 2
            /\ info[2].name = "csv"
            /\ info[2].remote_path = <<>>
            /\ ~info[2].available
            /\ \A k \in 1..Len(remote_ops) : remote_ops[k].product # 2
            /\ info[1].name = "pdf"
            /\ info[1].remote_path = <<ExpectedPdfPath>>
            /\ (fetch # "none" =>
                    remote_ops = <<[op |-> "file_exists", product |-> 1,
                                    path |-> <<ExpectedPdfPath>>]>>)
            /\ (fetch = "none" => remote_ops = <<>> /\ ~info[1].available)
            /\ record[1].id = "BMSLA"
            /\ record[1].status \in {"SUCCESS", "FAILED", "CRITICAL", "WARNING", "UNKNOWN",
                                     "PENDING", "NO_RECENT_RUN", "SSH_ERROR"}

\* the log was fetched and read as a successful run, the "pdf" product was
\* found on the remote host, the "csv" product has no path
C17_Witness ==
    /\ rw_pc = "done" /\ rw_bulletin = 2
    /\ fetch = "ok"
    /\ record[1].status = "SUCCESS"
    /\ record[1].product_info[1].available
    /\ record[1].product_info[2].remote_path = <<>>
    /\ Len(remote_ops) = 1

(***************************************************************************)
(* _resolve_dynamic_path on its own.  The template is a sequence of the    *)
(* pieces below: literal text, placeholders of date_vars, the escapes {{   *)
(* and }}, a placeholder date_vars does not know and an unclosed one.  bad *)
(* says that str.format raises on a template with the piece; on5 and on1   *)
(* are what the piece stands for on 2024-03-05 09:45:07 and on 2024-03-01  *)
(* 00:05:00.  Only plain names are used as placeholders (no conversion, no *)
(* format specification).                                                  *)
(***************************************************************************)
MaxPieces == 3
MaxCalls == 2

Pieces == <<
    [chars |-> <<"/","o","u","t","/","f","_">>, bad |-> FALSE,
     on5 |-> <<"/","o","u","t","/","f","_">>, on1 |-> <<"/","o","u","t","/","f","_">>],
    [chars |-> <<"{","y","e","a","r","}">>, bad |-> FALSE,
     on5 |-> <<"2","0","2","4">>, on1 |-> <<"2","0","2","4">>],
    [chars |-> <<"{","m","o","n","t","h","}","{","d","a","y","}">>, bad |-> FALSE,
     on5 |-> <<"0","3","0","5">>, on1 |-> <<"0","3","0","1">>],
    [chars |-> <<"{","y","e","a","r","_","s","h","o","r","t","}">>, bad |-> FALSE,
     on5 |-> <<"2","4">>, on1 |-> <<"2","4">>],
    [chars |-> <<"{","H","o","u","r","}","h">>, bad |-> FALSE,
     on5 |-> <<"0","9","h">>, on1 |-> <<"0","0","h">>],
    [chars |-> <<"{","b","o","g","u","s","}">>, bad |-> TRUE,
     on5 |-> <<>>, on1 |-> <<>>],
    [chars |-> <<"{","{">>, bad |-> FALSE,
     on5 |-> <<"{">>, on1 |-> <<"{">>],
    [chars |-> <<"}","}">>, bad |-> FALSE,
     on5 |-> <<"}">>, on1 |-> <<"}">>],
    [chars |-> <<"{","d","a","y">>, bad |-> TRUE,
     on5 |-> <<>>, on1 |-> <<>>] >>

RECURSIVE TemplateOf(_)
TemplateOf(ps) == IF ps = <<>> THEN <<>> ELSE Pieces[ps[1]].chars \o TemplateOf(Tail(ps))

InitPath ==
    /\ ClassifyIdle
    /\ SessionIdle
    /\ ConfigIdle
    /\ remote_ops = <<>>
    /\ request = [endpoint |-> "none", bulletin_id |-> "", index |-> 0]
    /\ handler = NoHandler
    /\ response = 0
    /\ current_date \in CurrentDates
    /\ tail_lines = <<>>
    /\ exec_kind = "ok"
    /\ rw_bulletin = 1
    /\ rw_pc = "done"
    /\ fetch = "none"
    /\ log_content_for_check = <<>>
    /\ record = <<>>
    /\ template_pieces \in UNION {[1..n -> 1..Len(Pieces)] : n \in 0..MaxPieces}
    /\ resolved = <<>>

\* app.py lines 96-134: _resolve_dynamic_path(template_string, current_date)
ResolvePath ==
    /\ Len(resolved) < MaxCalls
    /\ resolved' = Append(resolved,
                          _resolve_dynamic_path(TemplateOf(template_pieces), current_date))
    /\ UNCHANGED <<classify_vars, resolve_vars, session_vars, config_vars,
                   remote_ops, template_pieces, handler_vars>>

SpecPath == InitPath /\ [][ResolvePath]_vars

\* what the pieces stand for on current_date
RECURSIVE ExpectedText(_)
ExpectedText(ps) ==
    IF ps = <<>> THEN <<>>
    ELSE (IF current_date.day = 5 THEN Pieces[ps[1]].on5 ELSE Pieces[ps[1]].on1)
            \o ExpectedText(Tail(ps))

\* C18: _resolve_dynamic_path returns None when the template holds a
\* placeholder date_vars does not know (or is malformed), and otherwise the
\* template with every placeholder replaced by its value for the date; never
\* a text in which only some placeholders were replaced; and every call with
\* the same template and date returns the same.
C18_ResolveAllOrNothing ==
    \A k \in 1..Len(resolved) :
        IF \E i \in 1..Len(template_pieces) : Pieces[template_pieces[i]].bad
        THEN resolved[k] = <<>>
        ELSE resolved[k] = <<ExpectedText(template_pieces)>>

\* {year} and {month}{day} next to {bogus}: both calls returned None
C18_Witness ==
    /\ Len(resolved) = MaxCalls
    /\ \E i, j, k \in 1..Len(template_pieces) :
            /\ template_pieces[i] = 2
            /\ template_pieces[j] = 3
            /\ template_pieces[k] = 6
    /\ resolved[1] = <<>>
    /\ resolved[2] = <<>>

(***************************************************************************)
(* The handlers rerun_single_bulletin and download_bulletin_product: one   *)
(* request, the answers of the session as inputs, the operations asked of  *)
(* the session recorded in remote_ops.                                     *)
(***************************************************************************)
\* The values of the query parameter index.  kind and value say what the
\* text is: a number that is not negative and its value, a negative number,
\* or no number at all.
IndexStrings == <<
    [chars |-> <<"0">>, kind |-> "number", value |-> 0],
    [chars |-> <<"1">>, kind |-> "number", value |-> 1],
    [chars |-> <<"2">>, kind |-> "number", value |-> 2],
    [chars |-> <<"-","1">>, kind |-> "negative", value |-> 0],
    [chars |-> <<"a","b","c">>, kind |-> "non_numeric", value |-> 0],
    [chars |-> <<>>, kind |-> "non_numeric", value |-> 0],
    [chars |-> <<" ","1"," ">>, kind |-> "number", value |-> 1],
    [chars |-> <<"+","1">>, kind |-> "number", value |-> 1],
    [chars |-> <<"1",".","0">>, kind |-> "non_numeric", value |-> 0],
    [chars |-> <<"-","0">>, kind |-> "number", value |-> 0] >>

\* int(product_index_str): <<>> when ValueError is raised, else <<the number>>
int(s) ==
    LET t == Strip(s)
        signed == t # <<>> /\ t[1] \in {"+", "-"}
        digits == IF signed THEN Tail(t) ELSE t
    IN  IF digits = <<>> \/ ~AllDigits(digits) THEN <<>>
        ELSE IF t[1] = "-" THEN <<0 - NumVal(digits)>>
        ELSE <<NumVal(digits)>>

\* next((b for b in BULLETINS if b["id"] == bulletin_id), None); 0 is None
LookupBulletin(bulletin_id) ==
    LET hits == {i \in 1..Len(BULLETINS) : BULLETINS[i].id = bulletin_id}
    IN  IF hits = {} THEN 0 ELSE CHOOSE i \in hits : \A j \in hits : i <= j

\* product_paths[product_index] of Python, which counts a negative index from the end
PyIndex(list, i) == IF i >= 0 THEN list[i + 1] ELSE list[Len(list) + i + 1]

\* what a call of execute_command(bulletin["rerun_command"]) can meet
RerunEvents ==
    {ExecEvent("reconnect_failed", 0, <<>>, ConnectErrorText),
     ExecEvent("ssh_exception", 0, <<>>, SessionNotActiveText),
     ExecEvent("exception", 0, <<>>, TimeoutText),
     ExecEvent("completed", 0, <<"o","k",NL>>, <<>>),
     ExecEvent("completed", 1, <<>>, NoSuchFile \o <<NL>>)}

\* mutant: the command is wrapped before it is sent
RerunOps_wrapped(bulletin, event) ==
    IF event.kind = "reconnect_failed" THEN <<>>
    ELSE <<[op |-> "exec_command",
            command |-> <<"n","o","h","u","p"," ">> \o bulletin.rerun_command]>>

\* app.py line 392 and ssh_utils.py lines 97-107: the calls of exec_command
\* made by execute_command(bulletin["rerun_command"]); none when the
\* reconnect of line 100 raised
RerunOps(bulletin, event) ==
    IF event.kind = "reconnect_failed" THEN <<>>
    ELSE <<[op |-> "exec_command", command |-> bulletin.rerun_command]>>

\* mutant: a negative index is not refused
valid_index_no_negative_check(product_index_str, product_paths) ==
    IF product_index_str = <<>> THEN <<>>
    ELSE LET product_index == int(product_index_str[1])
         IN  IF product_index = <<>> THEN <<>>
             ELSE IF Len(product_paths) = 0 \/ product_index[1] >= Len(product_paths)
             THEN <<>>
             ELSE product_index

\* app.py lines 415-429: <<>> when the answer is 400, else <<product_index>>;
\* product_index_str is <<>> for None
valid_index(product_index_str, product_paths) ==
    IF product_index_str = <<>> THEN <<>>
    ELSE LET product_index == int(product_index_str[1])
         IN  IF product_index = <<>> THEN <<>>
             ELSE IF Len(product_paths) = 0 \/ product_index[1] < 0
                        \/ product_index[1] >= Len(product_paths)
             THEN <<>>
             ELSE product_index

\* RemoteSession.downloadFile: a local path ("ok") or an error reason
download_file_answers == {"ok", "NotFound", "ConnectionInactive", "other"}

InitHandlers ==
    /\ ClassifyIdle
    /\ ResolveIdle
    /\ SessionIdle
    /\ ConfigIdle
    /\ remote_ops = <<>>
    /\ template_pieces = <<>>
    /\ resolved = <<>>
    /\ request \in
        {[endpoint |-> "rerun", bulletin_id |-> b, index |-> 0] :
            b \in {"sonelgaz", "BMSLA", "nope"}}
        \cup {[endpoint |-> "download", bulletin_id |-> b, index |-> i] :
                b \in {"sonelgaz", "BMSLA", "nope"}, i \in 0..Len(IndexStrings)}
    /\ handler = [pc |-> "gate", active |-> "unknown", event |-> <<>>, temp_file |-> "none"]
    /\ response = 0

\* app.py lines 382-389 and 405-412: 503 when the session is not active, 404
\* for a bulletin_id that is not configured
HandlerGate ==
    /\ handler.pc = "gate"
    /\ \E active \in BOOLEAN :
        IF ~active
        THEN /\ handler' = [handler EXCEPT !.pc = "done", !.active = "no"]
             /\ response' = 503
        ELSE IF LookupBulletin(request.bulletin_id) = 0
        THEN /\ handler' = [handler EXCEPT !.pc = "done", !.active = "yes"]
             /\ response' = 404
        ELSE /\ handler' = [handler EXCEPT !.pc = request.endpoint, !.active = "yes"]
             /\ UNCHANGED response
    /\ UNCHANGED <<classify_vars, resolve_vars, session_vars, config_vars,
                   remote_ops, template_pieces, resolved, request>>

\* app.py lines 391-399: execute_command(bulletin["rerun_command"]), then 200
\* or 500
RerunExecute ==
    /\ handler.pc = "rerun"
    /\ \E event \in RerunEvents :
        LET bulletin == BULLETINS[LookupBulletin(request.bulletin_id)]
            out == execute_command_returns(event)
        IN  /\ remote_ops' = RerunOps(bulletin, event)
            /\ handler' = [handler EXCEPT !.pc = IF out.raised THEN "raised" ELSE "done",
                                          !.event = <<event>>]
            /\ response' = IF out.raised THEN 0 ELSE IF out.ret.success THEN 200 ELSE 500
    /\ UNCHANGED <<classify_vars, resolve_vars, session_vars, config_vars,
                   template_pieces, resolved, request>>

\* app.py lines 414-429: the index is read and checked
DownloadValidate ==
    /\ handler.pc = "download"
    /\ LET bulletin == BULLETINS[LookupBulletin(request.bulletin_id)]
           product_index_str == IF request.index = 0 THEN <<>>
                                ELSE <<IndexStrings[request.index].chars>>
       IN  IF valid_index(product_index_str, bulletin.product_paths) = <<>>
           THEN /\ handler' = [handler EXCEPT !.pc = "done"]
                /\ response' = 400
           ELSE /\ handler' = [handler EXCEPT !.pc = "fetch"]
                /\ UNCHANGED response
    /\ UNCHANGED <<classify_vars, resolve_vars, session_vars, config_vars,
                   remote_ops, template_pieces, resolved, request>>

\* app.py lines 431-477: the path is resolved (500 when it is not), file_exists
\* is asked (404 when false), download_file is called and the file is sent
\* (500 when either fails).  download_file gives a local path, or None and an
\* error; a transfer that fails may leave (created) the file it had begun in
\* temp_downloads.  When send_file raises, lines 467-474 remove the file; when
\* it returns, the file stays until the response is closed.
DownloadFetch ==
    /\ handler.pc = "fetch"
    /\ LET bulletin == BULLETINS[LookupBulletin(request.bulletin_id)]
           product_index == valid_index(<<IndexStrings[request.index].chars>>,
                                        bulletin.product_paths)[1]
           remote_path == _resolve_dynamic_path(
                              PyIndex(bulletin.product_paths, product_index).template,
                              current_date)
           check == [op |-> "file_exists", path |-> remote_path[1]]
           get == [op |-> "download_file", path |-> remote_path[1]]
           Outcome(exists, local_file_path, created, sent) ==
               IF ~exists
               THEN [ops |-> <<check>>, code |-> 404, pc |-> "done", temp_file |-> "none"]
               ELSE IF local_file_path # "ok"
               THEN [ops |-> <<check, get>>, code |-> 500, pc |-> "done",
                     temp_file |-> IF created THEN "present" ELSE "none"]
               ELSE IF sent
               THEN [ops |-> <<check, get>>, code |-> 200, pc |-> "sending",
                     temp_file |-> "present"]
               ELSE [ops |-> <<check, get>>, code |-> 500, pc |-> "done",
                     temp_file |-> "removed"]
           outcomes ==
               IF remote_path = <<>> \/ remote_path = << <<>> >>
               THEN {[ops |-> <<>>, code |-> 500, pc |-> "done", temp_file |-> "none"]}
               ELSE {Outcome(exists, local_file_path, created, sent) :
                        exists \in UNION {file_exists_answers(active) : active \in BOOLEAN},
                        local_file_path \in download_file_answers,
                        created \in BOOLEAN, sent \in BOOLEAN}
       IN  \E o \in outcomes :
            /\ remote_ops' = o.ops
            /\ response' = o.code
            /\ handler' = [handler EXCEPT !.pc = o.pc, !.temp_file = o.temp_file]
    /\ UNCHANGED <<classify_vars, resolve_vars, session_vars, config_vars,
                   template_pieces, resolved, request>>

\* app.py lines 459-465: cleanup_file, called when the response is closed
ResponseClose ==
    /\ handler.pc = "sending"
    /\ handler' = [handler EXCEPT !.pc = "done", !.temp_file = "removed"]
    /\ UNCHANGED <<classify_vars, resolve_vars, session_vars, config_vars,
                   remote_ops, template_pieces, resolved, request, response>>

NextHandlers ==
    HandlerGate \/ RerunExecute \/ DownloadValidate \/ DownloadFetch \/ ResponseClose

SpecHandlers == InitHandlers /\ [][NextHandlers]_vars

\* the handler runs to its return and the server closes every response it sends
SpecHandlersFair == SpecHandlers /\ WF_vars(NextHandlers)

\* the rerun_command of the bulletin the request names
ExpectedRerun ==
    IF request.bulletin_id = "sonelgaz"
    THEN <<"/","b","i","n","/","b","a","s","h"," ","/","h","o","m","e","/","b","q","r","m","/","B","Q","R","M","_","V","0","1","/","s","o","n","e","l","g","a","z","/","s","c","r","/","r","u","n",".","s","h">>
    ELSE <<"/","b","i","n","/","b","a","s","h"," ","/","h","o","m","e","/","b","q","r","m","/","B","Q","R","M","_","V","0","1","/","B","M","S","L","A","/","s","c","r","/","r","u","n",".","s","h">>

BadIndex ==
    \/ request.index = 0
    \/ IndexStrings[request.index].kind \in {"non_numeric", "negative"}
    \/ IndexStrings[request.index].value >=
            (IF request.bulletin_id = "BMSLA" THEN 2 ELSE 0)

ClassifierStatuses == {"CRITICAL", "FAILED", "SUCCESS", "WARNING", "UNKNOWN"}

RecordStatuses == ClassifierStatuses \cup {"SSH_ERROR", "PENDING", "NO_RECENT_RUN"}

\* C22: every status record carries one of CRITICAL, FAILED, SUCCESS, WARNING,
\* UNKNOWN, SSH_ERROR, PENDING, NO_RECENT_RUN, and the classifier, applied to
\* the fetched content (the texts of a failed fetch included) and to the text
\* of either day's bucket, returns only CRITICAL, FAILED, SUCCESS, WARNING or
\* UNKNOWN.
C22_StatusInClosedSet ==
    /\ record # <<>> => record[1].status \in RecordStatuses
    /\ parse_log_status(log_content_for_check).status \in ClassifierStatuses
    /\ parse_log_status(BucketText("today")).status \in ClassifierStatuses
    /\ parse_log_status(BucketText("yesterday")).status \in ClassifierStatuses

\* a record is PENDING while the classifier says CRITICAL of the same content
C22_Witness ==
    /\ RunDone
    /\ fetch = "ok"
    /\ record[1].status = "PENDING"
    /\ parse_log_status(log_content_for_check).status = "CRITICAL"

\* the lines of the tail before line i include one dated today or yesterday,
\* so that the retrieved lines have a day's bucket open at line i
TailOpenBefore(i) ==
    \E j \in 1..(i - 1) : TailLine(j).day \in {"today", "yesterday"}

\* C23 (as claimed): when the fetch succeeded, a line whose prefix matches the
\* YYYY-MM-DD pattern but is no calendar date, coming after a line dated today
\* or yesterday, is kept in the retrieved lines as a continuation line.
C23_InvalidDateLineKept ==
    (rw_pc \in {"resolve", "done"} /\ fetch = "ok") =>
        \A i \in 1..Len(tail_lines) :
            (TailLine(i).day = "invalid" /\ TailOpenBefore(i)) =>
                Contains(log_content_for_check, TailLine(i).chars)

\* no line of the tail carries a date marker that is no calendar date
TailAllDatesValid == \A i \in 1..Len(tail_lines) : TailLine(i).day # "invalid"

\* C24 (as claimed): when the fetch succeeded, whatever the order of the dated
\* lines, today's bucket and yesterday's bucket hold the lines dated that day
\* and the undated lines whose most recent preceding dated line is of that day,
\* and no other line.
C24_UndatedLineInOpenBucket ==
    (rw_pc \in {"resolve", "done"} /\ fetch = "ok" /\ TailAllDatesValid) =>
        /\ DayLogContent(log_content_for_check, DateOf(current_date)) = BucketText("today")
        /\ DayLogContent(log_content_for_check, PrevDay(DateOf(current_date)))
               = BucketText("yesterday")

\* the valid timestamp of the last line of the day that has one, as text
TailLastTs(day, date) ==
    LET cand == {i \in 1..Len(tail_lines) : TailLine(i).day = day /\ TailLine(i).ts}
        last == CHOOSE i \in cand : \A j \in cand : j <= i
    IN  FormatDate(date) \o <<" ">> \o TailLine(last).time

\* what _get_latest_timestamp_from_log_content returns for the bucket of a day
ReportedTs(date) ==
    _get_latest_timestamp_from_log_content(DayLogContent(log_content_for_check, date), date)

\* C25 (as claimed): the timestamp reported for a day is that of the last line
\* of the day's bucket that starts with a valid full timestamp of that day.
C25_LastValidLineReported ==
    (rw_pc \in {"resolve", "done"} /\ fetch = "ok") =>
        /\ TailHasValidTs("today") =>
              ReportedTs(DateOf(current_date))
                  = <<TailLastTs("today", DateOf(current_date))>>
        /\ TailHasValidTs("yesterday") =>
              ReportedTs(PrevDay(DateOf(current_date)))
                  = <<TailLastTs("yesterday", PrevDay(DateOf(current_date)))>>

\* C25 (amended): the timestamp reported for a day is the greatest valid full
\* timestamp of that day among the lines of the day's bucket, wherever in the
\* bucket its line is, and none is reported when the bucket has no such line;
\* a lexically matching but calendrically invalid timestamp is never reported
\* and does not keep an earlier valid line from being reported.
C25_GreatestValidTsReported ==
    (rw_pc \in {"resolve", "done"} /\ fetch = "ok") =>
        /\ ReportedTs(DateOf(current_date))
              = IF TailHasValidTs("today")
                THEN <<TailLatestTs("today", DateOf(current_date))>> ELSE <<>>
        /\ ReportedTs(PrevDay(DateOf(current_date)))
              = IF TailHasValidTs("yesterday")
                THEN <<TailLatestTs("yesterday", PrevDay(DateOf(current_date)))>> ELSE <<>>

\* today's lines are a later valid timestamp, an earlier valid one and then a
\* line whose timestamp is no time of day: the later one is reported
C25_Witness ==
    /\ rw_pc = "done"
    /\ fetch = "ok"
    /\ Len(tail_lines) = 3
    /\ \A i \in 1..3 : TailLine(i).day = "today"
    /\ TailLine(1).ts /\ TailLine(2).ts /\ TailLine(2).tkey < TailLine(1).tkey
    /\ ~TailLine(3).ts /\ MatchesTimestampPattern(TailLine(3).chars)
    /\ ReportedTs(DateOf(current_date))
           = <<FormatDate(DateOf(current_date)) \o <<" ">> \o TailLine(1).time>>

\* C26 (as claimed): a record carries SSH_ERROR only if the session was found
\* inactive or the log fetch failed while the record was computed; after a
\* fetch that succeeded the status is never SSH_ERROR, whatever the lines hold.
C26_SshErrorOnlyFromSession ==
    (RunDone /\ record[1].status = "SSH_ERROR") => fetch # "ok"

\* request r has a command in flight on the session's live transport
InFlight(r) ==
    /\ pc[r] = "ec_read"
    /\ transport_active(session)
    /\ ec[r].issued_on = session.conn

\* C27 (as claimed): a step in which one request runs its reconnect, from the
\* hook or from execute_command, leaves in place the transport on which
\* another request's command is in flight.
C27_ReconnectSparesInFlight ==
    [][\A r, q \in Reqs :
          (/\ r # q
           /\ InFlight(r)
           /\ pc[q] \in {"hook_connect", "ec_connect"}
           /\ pc'[q] # pc[q])
              => (session'.conn = session.conn /\ transport_active(session'))]_vars

\* C28: has_warnings is TRUE in a status record, and in what the classifier
\* returns for the fetched content and for the text of either day's bucket,
\* only if the status beside it is SUCCESS.
C28_WarningsOnlyWithSuccess ==
    /\ record # <<>> => (record[1].has_warnings => record[1].status = "SUCCESS")
    /\ \A text \in {log_content_for_check, BucketText("today"), BucketText("yesterday")} :
          parse_log_status(text).has_warnings => parse_log_status(text).status = "SUCCESS"

\* a record with has_warnings TRUE was returned, and it is SUCCESS; the tail
\* holds a success line and a warning line, both of today
C28_Witness ==
    /\ RunDone
    /\ fetch = "ok"
    /\ record[1].has_warnings
    /\ record[1].status = "SUCCESS"
    /\ Contains(Upper(BucketText("today")), <<"W","A","R","N">>)

=============================================================================
